---- MODULE Spec2Model ----
(***************************************************************************)
(* A model of ydl (cmlburnett/ydl): the catalog (sqlite tables v, vnames,  *)
(* vids, RSS, v_sleep and the four list tables u, c, ch, pl), the          *)
(* sync-lists and download state machines that change it, the naming and   *)
(* path functions, and the read-only FUSE projection.                      *)
(*                                                                         *)
(* Text is modelled as a sequence of characters, each character a          *)
(* one-element TLA+ string: "MIT" is <<"M","I","T">>.  A table is the      *)
(* sequence of its rows in rowid (insertion) order; the schema declares no *)
(* UNIQUE column, so a table can hold two rows with the same key.  A NULL  *)
(* column is the empty sequence; a timestamp t is <<t>> (seconds).         *)
(***************************************************************************)
EXTENDS Integers, Sequences, FiniteSets, TLC

VARIABLES
    now,        \* datetime.datetime.utcnow(), in seconds
    v,          \* table v: one row per video (item)
    vnames,     \* table vnames: preferred names
    vids,       \* table vids: membership of a video in a list
    RSS,        \* table RSS: feed URL cache
    v_sleep,    \* table v_sleep: sleep registry
    lists,      \* tables u, c, ch, pl, indexed by DBName
    job,        \* the batch in progress (a loop of sync_list / download_videos / sync_videos)
    obs         \* what the last operation was given, asked of the outside, and returned

vars == <<now, v, vnames, vids, RSS, v_sleep, lists, job, obs>>
catalog == <<v, vnames, vids, RSS, v_sleep, lists>>

----------------------------------------------------------------------------
(* Bounds of the model *)

\* longest title given to title_to_name
MaxTitleLen == 3

\* the clock runs from 0 to MaxHours hours
MaxHours == 1

\* the video ids of the model are YtidOf(1) .. YtidOf(MaxYtids)
MaxYtids == 2

\* longest feed and longest full listing the site returns
MaxFeedLen == 2

MaxListLen == 2

\* vids rows: an enumeration that would add a row beyond this is left out
MaxRows == 3

\* v_sleep rows: the sleep command is not issued beyond this
MaxSleeps == 2

\* rounds of the retry loop of _download_actual that are followed for one item
MaxRounds == 11

----------------------------------------------------------------------------
(* Generic helpers on sequences *)

NULL == <<>>

Range(s) == {s[i] : i \in 1..Len(s)}

RECURSIVE SeqsUpTo(_, _)
SeqsUpTo(S, n) ==
    IF n = 0 THEN {<<>>}
    ELSE LET shorter == SeqsUpTo(S, n - 1)
         IN  shorter \cup {Append(s, x) : s \in {t \in shorter : Len(t) = n - 1}, x \in S}

RECURSIVE Filter(_, _)
Filter(s, keep) ==
    IF s = <<>> THEN <<>>
    ELSE IF Head(s) \in keep THEN <<Head(s)>> \o Filter(Tail(s), keep)
    ELSE Filter(Tail(s), keep)

StartsWith(s, p) == Len(s) >= Len(p) /\ SubSeq(s, 1, Len(p)) = p

EndsWith(s, p) == Len(s) >= Len(p) /\ SubSeq(s, Len(s) - Len(p) + 1, Len(s)) = p

----------------------------------------------------------------------------
(* Characters.  E_ACUTE stands for an accented Latin-1 letter and EMOJI    *)
(* for any other non-ASCII codepoint.                                      *)

E_ACUTE == "e_acute"
EMOJI == "emoji"

NonAscii == {E_ACUTE, EMOJI}

TitleChars == {"a", " ", ".", ":", "/", "\\", "!", "?", "|", E_ACUTE, EMOJI}

NOTHING == <<"N", "O", "T", "H", "I", "N", "G">>

----------------------------------------------------------------------------
(* title_to_name (ydl.util), section 4.B: transliterate the accented       *)
(* letters, drop the remaining non-ASCII codepoints, strip leading dots,   *)
(* rewrite : / \ to -, delete ! ? |, collapse runs of spaces, trim; the    *)
(* empty result becomes NOTHING.                                           *)

Transliterate(s) == [i \in 1..Len(s) |-> IF s[i] = E_ACUTE THEN "e" ELSE s[i]]

DropNonAscii(s) == Filter(s, Range(s) \ NonAscii)

RECURSIVE StripLeading(_, _)
StripLeading(s, chars) ==
    IF s # <<>> /\ Head(s) \in chars THEN StripLeading(Tail(s), chars) ELSE s

StripTrailing(s, chars) ==
    LET keep == {i \in 1..Len(s) : s[i] \notin chars}
    IN  IF keep = {} THEN <<>>
        ELSE SubSeq(s, 1, CHOOSE i \in keep : \A j \in keep : j <= i)

RewriteSeparators(s) ==
    [i \in 1..Len(s) |-> IF s[i] \in {":", "/", "\\"} THEN "-" ELSE s[i]]

DeleteMarks(s) == Filter(s, Range(s) \ {"!", "?", "|"})

RECURSIVE CollapseSpaces(_)
CollapseSpaces(s) ==
    IF Len(s) < 2 THEN s
    ELSE IF s[1] = " " /\ s[2] = " " THEN CollapseSpaces(Tail(s))
    ELSE <<Head(s)>> \o CollapseSpaces(Tail(s))

Trim(s) == StripTrailing(StripLeading(s, {" "}), {" "})

title_to_name(t) ==
    LET r == Trim(CollapseSpaces(DeleteMarks(RewriteSeparators(
                 StripLeading(DropNonAscii(Transliterate(t)), {"."})))))
    IN  IF r = <<>> THEN NOTHING ELSE r

----------------------------------------------------------------------------
(* Video ids, directory names and file names *)

\* a video id is 11 characters long (YDL.skip tells videos from playlists by it)
YtidLen == 11

Digits == <<"1", "2", "3", "4", "5", "6", "7", "8", "9">>

FirstChars == <<"a", "-", "b">>

MkYtid(c, d) == <<c>> \o [i \in 1..(YtidLen - 2) |-> "x"] \o <<d>>

\* the i-th video id of the model: a x..x 1, - x..x 2, b x..x 3, ...
YtidOf(i) == MkYtid(FirstChars[((i - 1) % Len(FirstChars)) + 1], Digits[i])

Ytids == {YtidOf(i) : i \in 1..MaxYtids}

TEMP == <<"T", "E", "M", "P">>

MISCELLANEOUS == <<"M", "I", "S", "C">>

\* os.getcwd(): the directory of the catalog file, the archive root
CWD == <<"/", "r">>

MKV == <<"m", "k", "v">>

INFO_JSON == <<"i", "n", "f", "o", ".", "j", "s", "o", "n">>

\* format_v_names with the item's name taking precedence over the preferred name
format_v_names_NameFirst(dname, name, alias, ytid, suffix) ==
    LET fname == IF name # NULL THEN name ELSE IF alias # NULL THEN alias ELSE TEMP
        dir == CWD \o <<"/">> \o dname \o <<"/">> \o <<ytid[1]>>
    IN  IF suffix = NULL
        THEN <<dir, fname \o <<"-">> \o ytid>>
        ELSE <<dir, fname \o <<"-">> \o ytid \o <<".">> \o suffix>>

\* db.format_v_names: the (directory, file name) of a video's files
format_v_names(dname, name, alias, ytid, suffix) ==
    LET n == IF name = NULL THEN TEMP ELSE name
        fname == IF alias = NULL THEN n ELSE alias
        dir == CWD \o <<"/">> \o dname \o <<"/">> \o <<ytid[1]>>
    IN  IF suffix = NULL
        THEN <<dir, fname \o <<"-">> \o ytid>>
        ELSE <<dir, fname \o <<"-">> \o ytid \o <<".">> \o suffix>>

\* db.format_v_fname
format_v_fname(dname, name, alias, ytid, suffix) ==
    LET dn == format_v_names(dname, name, alias, ytid, suffix)
    IN  dn[1] \o <<"/">> \o dn[2]

----------------------------------------------------------------------------
(* The empty catalog: db.open on a new file creates the schema and no row *)

EmptyCatalog ==
    /\ v = <<>> /\ vnames = <<>> /\ vids = <<>> /\ RSS = <<>> /\ v_sleep = <<>>
    /\ lists = [t \in {"u", "c", "ch", "pl"} |-> <<>>]

----------------------------------------------------------------------------
(* Ordering of text: sorted() compares strings by codepoint *)

AsciiOrder ==
    <<" ", "!", "-", ".", "/", "0", "1", "2", "3", "4", "5", "6", "7", "8", "9", ":", "=", "?",
      "C", "E", "I", "L", "M", "P", "S", "T", "U", "\\", "a", "b", "c", "e", "q", "x", "|">>

Ord(ch) == CHOOSE i \in 1..Len(AsciiOrder) : AsciiOrder[i] = ch

RECURSIVE LexLess(_, _)
LexLess(s, t) ==
    IF t = <<>> THEN FALSE
    ELSE IF s = <<>> THEN TRUE
    ELSE IF Head(s) = Head(t) THEN LexLess(Tail(s), Tail(t))
    ELSE Ord(Head(s)) < Ord(Head(t))

\* the strings of S from the greatest down
RECURSIVE Sorted_Descending(_)
Sorted_Descending(S) ==
    IF S = {} THEN <<>>
    ELSE LET m == CHOOSE x \in S : \A y \in S \ {x} : LexLess(y, x)
         IN  <<m>> \o Sorted_Descending(S \ {m})

\* sorted(S) for a set S of strings
RECURSIVE Sorted(_)
Sorted(S) ==
    IF S = {} THEN <<>>
    ELSE LET m == CHOOSE x \in S : \A y \in S \ {x} : LexLess(x, y)
         IN  <<m>> \o Sorted(S \ {m})

Min(S) == CHOOSE x \in S : \A y \in S : x <= y

Max(S) == CHOOSE x \in S : \A y \in S : y <= x

\* every ordering of the elements of a set
RECURSIVE Orderings(_)
Orderings(S) ==
    IF S = {} THEN {<<>>}
    ELSE UNION {{<<x>> \o o : o \in Orderings(S \ {x})} : x \in S}

----------------------------------------------------------------------------
(* Tables (sqlitehelper DBTable): a row's rowid is its position *)

Matching(tbl, P(_)) == {i \in 1..Len(tbl) : P(tbl[i])}

\* select_one: the rowid of the first matching row, 0 for None
select_one(tbl, P(_)) == IF Matching(tbl, P) = {} THEN 0 ELSE Min(Matching(tbl, P))

\* update: F applied to every matching row
update(tbl, P(_), F(_)) == [i \in 1..Len(tbl) |-> IF P(tbl[i]) THEN F(tbl[i]) ELSE tbl[i]]

\* delete: every matching row removed
delete(tbl, P(_)) == SelectSeq(tbl, LAMBDA r : ~P(r))

\* the columns of v the operations below read or write (duration, uploader,
\* thumbnails and chapters are carried along by the code and never read by them)
VRow(ytid, dname, ctime) ==
    [ytid |-> ytid, name |-> NULL, dname |-> dname, title |-> NULL, ptime |-> NULL,
     ctime |-> ctime, atime |-> NULL, utime |-> NULL, skip |-> FALSE]

ListRow(name, ctime) ==
    [name |-> name, alias |-> NULL, ctime |-> ctime, atime |-> NULL, skip |-> FALSE]

DBNames == {"u", "c", "ch", "pl"}

Idle == job = NULL

NoObs == [op |-> "none"]

----------------------------------------------------------------------------
(* The clock *)

Minute == 60

Hour == 3600

Day == 86400

\* time passes between operations and between the items of a batch
Tick ==
    /\ now + Hour <= MaxHours * Hour
    /\ now' = now + Hour
    /\ obs' = NoObs
    /\ UNCHANGED <<catalog, job>>

----------------------------------------------------------------------------
(* YDL.add: register one URL *)

\* db.add_video: the dname argument is ignored
add_video(ytid, dname) == Append(v, VRow(ytid, MISCELLANEOUS, <<now>>))

Add(targets) ==
    \E u \in targets :
        /\ Idle
        /\ IF u.typ = "v"
           THEN /\ v' = IF select_one(v, LAMBDA r : r.ytid = u.name) # 0 THEN v
                         ELSE add_video(u.name, MISCELLANEOUS)
                /\ UNCHANGED lists
           ELSE /\ lists' = IF select_one(lists[u.typ], LAMBDA r : r.name = u.name) # 0
                            THEN lists
                            ELSE [lists EXCEPT ![u.typ] = Append(@, ListRow(u.name, <<now>>))]
                /\ UNCHANGED v
        /\ obs' = [op |-> "add", typ |-> u.typ, name |-> u.name]
        /\ UNCHANGED <<now, vnames, vids, RSS, v_sleep, job>>

----------------------------------------------------------------------------
(* YDL._prunesleep *)

\* a prune that deletes nothing
_prunesleep_Nothing(tbl) == tbl

\* rows are read ordered by t; the loop stops at the first row still in the future
_prunesleep(tbl) == delete(tbl, LAMBDA r : ~(r.t > now))

\* "return [_['ytid'] for _ in prune]": the ids whose entries the prune deletes
Pruned(tbl) == {tbl[i].ytid : i \in {k \in 1..Len(tbl) : ~(tbl[k].t > now)}}

----------------------------------------------------------------------------
(* The outside world of sync-lists *)

\* the title the site gives a video
TitleOf(ytid) == <<"a", ":", ytid[YtidLen]>>

\* the feed URL advertised on the page of a list
FeedUrl(typ, name) == <<typ>> \o <<"/">> \o name

----------------------------------------------------------------------------
(* __sync_list_full: reconcile the full listing `cur` of a list with vids  *)
(* and v.  key is c_name_alt or c_name; t is _now().                       *)

\* old = {r['ytid']: r['rowid']}: a later row of the same ytid replaces an earlier one
OldMap(tbl, key) ==
    LET rows == Matching(tbl, LAMBDA r : r.name = key)
    IN  [y \in {tbl[i].ytid : i \in rows} |-> Max({i \in rows : tbl[i].ytid = y})]

RECURSIVE UpsertVids(_, _, _, _, _, _)
UpsertVids(tbl, old, cur, i, key, t) ==
    IF i > Len(cur) THEN [vids |-> tbl, old |-> old]
    ELSE IF cur[i] \in DOMAIN old
    THEN UpsertVids([tbl EXCEPT ![old[cur[i]]] = [@ EXCEPT !.idx = i, !.atime = <<t>>]],
                    [y \in DOMAIN old \ {cur[i]} |-> old[y]], cur, i + 1, key, t)
    ELSE UpsertVids(Append(tbl, [name |-> key, ytid |-> cur[i], idx |-> i, atime |-> <<t>>]),
                    old, cur, i + 1, key, t)

\* the rowid the tombstone update is given for a left-over entry of old:
\* d.vids.update({'rowid': '?'}, {'idx': -1}) passes the text '?', which is
\* the rowid of no row (0 here)
TombstoneRowid(old, y) == 0

Tombstones(tbl, old) ==
    [i \in 1..Len(tbl) |->
        IF \E y \in DOMAIN old : TombstoneRowid(old, y) = i
        THEN [tbl[i] EXCEPT !.idx = -1] ELSE tbl[i]]

\* an upsert that hands the item to the source being reconciled
RECURSIVE UpsertV_Claims(_, _, _, _, _)
UpsertV_Claims(tbl, cur, i, key, t) ==
    IF i > Len(cur) THEN tbl
    ELSE LET y == cur[i]
         IN  IF Matching(tbl, LAMBDA r : r.ytid = y) # {}
             THEN UpsertV_Claims(update(tbl, LAMBDA r : r.ytid = y,
                                        LAMBDA r : [r EXCEPT !.atime = NULL, !.dname = key]),
                                 cur, i + 1, key, t)
             ELSE UpsertV_Claims(Append(tbl, VRow(y, key, <<t>>)), cur, i + 1, key, t)

RECURSIVE UpsertV(_, _, _, _, _)
UpsertV(tbl, cur, i, key, t) ==
    IF i > Len(cur) THEN tbl
    ELSE LET y == cur[i]
             title == TitleOf(y)
             name == title_to_name(title)
         IN  IF Matching(tbl, LAMBDA r : r.ytid = y) # {}
             THEN UpsertV(update(tbl, LAMBDA r : r.ytid = y,
                                 LAMBDA r : [r EXCEPT !.atime = NULL, !.title = title,
                                                      !.name = name]),
                          cur, i + 1, key, t)
             ELSE UpsertV(Append(tbl, [VRow(y, key, <<t>>) EXCEPT !.title = title,
                                                                  !.name = name]),
                          cur, i + 1, key, t)

\* a ghost branch that inserts the item row without looking for one
RECURSIVE Ghosts_Unchecked(_, _, _, _, _)
Ghosts_Unchecked(vt, vidst, gs, key, t) ==
    IF gs = <<>> THEN [v |-> vt, vids |-> vidst]
    ELSE Ghosts_Unchecked(Append(vt, VRow(Head(gs), key, NULL)), vidst, Tail(gs), key, t)

\* the feed ids missing from the listing, in the order the set yields them
RECURSIVE Ghosts(_, _, _, _, _)
Ghosts(vt, vidst, gs, key, t) ==
    IF gs = <<>> THEN [v |-> vt, vids |-> vidst]
    ELSE LET g == Head(gs)
             vids1 == IF select_one(vidst, LAMBDA r : r.ytid = g) = 0
                      THEN Append(vidst, [name |-> key, ytid |-> g, idx |-> -1, atime |-> <<t>>])
                      ELSE vidst
             v1 == IF select_one(vt, LAMBDA r : r.ytid = g) = 0
                   THEN Append(vt, VRow(g, key, NULL))
                   ELSE vt
         IN  Ghosts(v1, vids1, Tail(gs), key, t)

weird_diff(new, cur) == IF new # NULL /\ new # <<>> THEN Range(new) \ Range(cur) ELSE {}

all_old(old, cur) == \A i \in 1..Len(cur) : cur[i] \in DOMAIN old

\* the tables after the transaction, and the branch taken; an empty listing
\* raises EmptyListError before the transaction begins
sync_list_full(vt, vidst, key, cur, new, force, t, gs) ==
    LET old == OldMap(vidst, key)
    IN  IF cur = <<>> THEN [v |-> vt, vids |-> vidst, path |-> "error"]
        ELSE IF all_old(old, cur) /\ ~force
        THEN LET g == Ghosts(vt, vidst, gs, key, t)
             IN  [v |-> g.v, vids |-> g.vids, path |-> "all_old"]
        ELSE LET up == UpsertVids(vidst, old, cur, 1, key, t)
             IN  [v |-> UpsertV(vt, cur, 1, key, t),
                  vids |-> Tombstones(up.vids, up.old),
                  path |-> "upsert"]

----------------------------------------------------------------------------
(* YDL.sync_list, _sync_list and __sync_list: the sync-lists pass.  job    *)
(* holds the loop over the four tables (z), the list table being synced    *)
(* (typ), its rows still to sync (rows), mp and the summary.               *)

\* the rows of one list table _sync_list selects, as (c_name, rss_ok, rowid)
\* sorted by c_name; in SQL, AND binds tighter than OR
SelectLists(typ, a, L) ==
    LET tbl == L[typ]
        old_ok(r) == a.ignore_old => r.atime = NULL
        sel(r) == IF a.filt = {} THEN old_ok(r)
                  ELSE IF typ = "ch" THEN r.name \in a.filt \/ (r.alias \in a.filt /\ old_ok(r))
                  ELSE r.name \in a.filt /\ old_ok(r)
        rows == Matching(tbl, sel)
        names == {tbl[i].name : i \in rows}
        mp == [n \in names |-> Max({i \in rows : tbl[i].name = n})]
        rss_ok == ~a.no_rss /\ typ # "pl"
        order == Sorted(names)
    IN  [mp |-> mp,
         rows |-> [k \in 1..Len(order) |->
                     [c_name |-> order[k],
                      rss_ok |-> tbl[mp[order[k]]].atime # NULL /\ rss_ok,
                      rowid |-> mp[order[k]]]]]

\* _sync_list entered for the first table of z, or the pass is over
EnterLists(z, a, L) ==
    IF z = <<>> THEN NULL
    ELSE LET s == SelectLists(Head(z), a, L)
         IN  [op |-> "sync_list", args |-> a, z |-> Tail(z), typ |-> Head(z),
              rows |-> s.rows, mp |-> s.mp, done |-> <<>>, error |-> <<>>, skip |-> <<>>]

\* the list tables with the unnamed channels before the named ones
sync_list_z_UnnamedFirst == <<"u", "ch", "c", "pl">>

\* "z = [...]": the list tables in the order sync_list goes through them:
\* users, named channels (c), unnamed channels (ch), playlists
sync_list_z == <<"u", "c", "ch", "pl">>

sync_list(argset) ==
    \E a \in argset :
        /\ Idle
        /\ v_sleep' = _prunesleep(v_sleep)
        /\ job' = EnterLists(sync_list_z, a, lists)
        /\ obs' = [op |-> "sync_list"]
        /\ UNCHANGED <<now, v, vnames, vids, RSS, lists>>

InSyncList == job # NULL /\ job.op = "sync_list"

Pages == {"found", "none", "timeout"}

Feeds == {[st |-> "fail"], [st |-> "timeout"]}
         \cup {[st |-> "ok", ytids |-> f] : f \in SeqsUpTo(Ytids, MaxFeedLen)}

Listings == SeqsUpTo(Ytids, MaxListLen)

\* "if rss_ok and not args.force: return False": the full listing is not
\* fetched
FeedSuffices_Never(rss_ok, force) == FALSE

FeedSuffices(rss_ok, force) == rss_ok /\ ~force

\* a rollback that keeps what the transaction wrote
rollback_Keep(before, written) == written

\* "except: d.rollback(); raise": the table is as it was at d.begin()
rollback(before, written) == before

\* __sync_list on the first of the rows still to sync.  page is what
\* RSSHelper.GetByPage meets, feed what RSSHelper.ParseRSS_YouTube meets, cur
\* the listing ydl.get_list returns (empty: EmptyListError), gs the order in
\* which the set weird_diff is walked, raise whether a statement of the
\* transaction raises once the membership rows are written and before the
\* item rows are.
__sync_list_raising(raises) ==
    /\ InSyncList
    /\ job.rows # <<>>
    /\ LET e == Head(job.rows)
           typ == job.typ
           row == lists[typ][e.rowid]
           force == job.args.force
           c_name_alt == IF typ = "ch" THEN row.alias ELSE NULL
           key == IF c_name_alt # NULL THEN c_name_alt ELSE e.c_name
           cached == select_one(RSS, LAMBDA r : r.typ = typ /\ r.name = e.c_name)
           \* RSSHelper.GetByPage is called for the page of the list
           fetched == e.rss_ok /\ cached = 0
       IN  IF typ = "pl" /\ row.skip
           THEN /\ job' = [job EXCEPT !.rows = Tail(@), !.skip = Append(@, e.c_name)]
                /\ obs' = [op |-> "__sync_list", typ |-> typ, fetched |-> fetched,
                           c_name |-> e.c_name,
                           key |-> key, force |-> force, verdict |-> "skip",
                           full |-> FALSE, path |-> "none", new |-> NULL, cur |-> <<>>]
                /\ UNCHANGED <<now, catalog>>
           ELSE \E page \in IF fetched THEN {q \in Pages : q = "found" => Len(RSS) < MaxRows}
                              ELSE {"none"} :
                LET url == IF cached # 0 THEN RSS[cached].url
                           ELSE IF page = "found" THEN FeedUrl(typ, key) ELSE NULL
                    RSS1 == IF e.rss_ok /\ cached = 0 /\ url # NULL
                            THEN Append(RSS, [typ |-> typ, name |-> key, url |-> url,
                                              atime |-> <<now>>])
                            ELSE RSS
                IN  IF page = "timeout"
                    THEN \* url is never bound: the UnboundLocalError ends the program
                         /\ job' = NULL
                         /\ obs' = [op |-> "__sync_list", typ |-> typ, fetched |-> fetched,
                                    c_name |-> e.c_name,
                                    key |-> key, force |-> force, verdict |-> "crash",
                                    full |-> FALSE, path |-> "none", new |-> NULL,
                                    cur |-> <<>>]
                         /\ UNCHANGED <<now, catalog>>
                    ELSE \E feed \in IF e.rss_ok /\ url # NULL THEN Feeds
                                     ELSE {[st |-> "fail"]} :
                         LET member(y) ==
                                 select_one(vids, LAMBDA r : r.name = key /\ r.ytid = y) # 0
                             verdict ==
                                 IF ~e.rss_ok THEN "off"
                                 ELSE IF url = NULL THEN "NoFeed"
                                 ELSE IF feed.st # "ok" THEN "Failed"
                                 ELSE IF \E k \in 1..Len(feed.ytids) : ~member(feed.ytids[k])
                                 THEN "IndicatesNew"
                                 ELSE "Fresh"
                             \* rss_ok is cleared only for a missing url or a new id
                             rss_ok == verdict \in {"Fresh", "Failed"}
                             new == IF e.rss_ok /\ url # NULL /\ feed.st = "ok"
                                    THEN feed.ytids ELSE NULL
                         IN  IF FeedSuffices(rss_ok, force)
                             THEN /\ RSS' = RSS1
                                  /\ job' = [job EXCEPT !.rows = Tail(@)]
                                  /\ obs' = [op |-> "__sync_list", typ |-> typ, fetched |-> fetched,
                                             c_name |-> e.c_name, key |-> key,
                                             force |-> force, verdict |-> verdict,
                                             full |-> FALSE, path |-> "none",
                                             new |-> new, cur |-> <<>>]
                                  /\ UNCHANGED <<now, v, vnames, vids, v_sleep, lists>>
                             ELSE \E cur \in Listings :
                                  \E gs \in IF all_old(OldMap(vids, key), cur) /\ ~force
                                            THEN Orderings(weird_diff(new, cur))
                                            ELSE {<<>>} :
                                  \E raise \in {x \in raises : x => cur # <<>>} :
                                  LET full == sync_list_full(v, vids, key, cur, new, force,
                                                             now, gs)
                                      res == IF raise
                                             THEN [v |-> rollback(v, v),
                                                   vids |-> rollback(vids, full.vids),
                                                   path |-> "error"]
                                             ELSE full
                                  IN  /\ Len(full.vids) <= MaxRows
                                      /\ RSS' = RSS1
                                      /\ v' = res.v
                                      /\ vids' = res.vids
                                      /\ job' = IF res.path = "error"
                                                THEN [job EXCEPT !.rows = Tail(@),
                                                                 !.error = Append(@, e.c_name)]
                                                ELSE [job EXCEPT !.rows = Tail(@),
                                                                 !.done = Append(@, e.c_name)]
                                      /\ obs' = [op |-> "__sync_list", typ |-> typ, fetched |-> fetched,
                                                 c_name |-> e.c_name, key |-> key,
                                                 force |-> force, verdict |-> verdict,
                                                 full |-> TRUE, path |-> res.path,
                                                 new |-> new, cur |-> cur]
                                      /\ UNCHANGED <<now, vnames, v_sleep, lists>>

\* a pass in which no statement of the reconciliation raises
__sync_list == __sync_list_raising({FALSE})

\* the end of _sync_list: the atime of every synced list is set, and the
\* next table is entered
_sync_list_end ==
    /\ InSyncList
    /\ job.rows = <<>>
    /\ LET done == {job.mp[job.done[k]] : k \in 1..Len(job.done)}
           L1 == [lists EXCEPT ![job.typ] =
                     [i \in 1..Len(@) |-> IF i \in done THEN [@[i] EXCEPT !.atime = <<now>>]
                                          ELSE @[i]]]
       IN  /\ lists' = L1
           /\ job' = EnterLists(job.z, job.args, L1)
    /\ obs' = [op |-> "_sync_list_end"]
    /\ UNCHANGED <<now, v, vnames, vids, RSS, v_sleep>>

----------------------------------------------------------------------------
(* Marking: YDL.skip, YDL.unskip, YDL.sleep *)

\* "if ytid[0] == '=': ytid = '-' + ytid[1:]"
Unescape(y) == IF y[1] = "=" THEN <<"-">> \o Tail(y) ELSE y

\* how a ytid with a leading '-' is written on the command line
Escape(y) == IF y[1] = "-" THEN <<"=">> \o Tail(y) ELSE y

\* YDL.skip on a set of video ids: a missing row ends the program inside the
\* transaction, which is then never committed
skip(argset) ==
    \E ys \in argset :
        LET ytids == {Unescape(y) : y \in ys}
        IN  /\ Idle
            /\ IF \E y \in ytids : select_one(v, LAMBDA r : r.ytid = y) = 0
               THEN UNCHANGED <<v, v_sleep>>
               ELSE /\ v' = [i \in 1..Len(v) |->
                               IF i \in {select_one(v, LAMBDA r : r.ytid = y) : y \in ytids}
                               THEN [v[i] EXCEPT !.skip = TRUE] ELSE v[i]]
                    /\ v_sleep' = delete(v_sleep, LAMBDA r : r.ytid \in ytids)
            /\ obs' = [op |-> "skip", ytids |-> ytids]
            /\ UNCHANGED <<now, vnames, vids, RSS, lists, job>>

unskip(argset) ==
    \E ys \in argset :
        LET ytids == {Unescape(y) : y \in ys}
        IN  /\ Idle
            /\ IF \E y \in ytids : select_one(v, LAMBDA r : r.ytid = y) = 0
               THEN UNCHANGED v
               ELSE v' = [i \in 1..Len(v) |->
                            IF i \in {select_one(v, LAMBDA r : r.ytid = y) : y \in ytids}
                            THEN [v[i] EXCEPT !.skip = FALSE] ELSE v[i]]
            /\ obs' = [op |-> "unskip", ytids |-> ytids]
            /\ UNCHANGED <<now, vnames, vids, RSS, v_sleep, lists, job>>

\* YDL.sleep YTID T with an absolute time: the existing entry is looked up
\* with the argument as typed, the new entry is inserted with the id unescaped
sleep(raws, times) ==
    \E raw \in raws, t \in times :
        LET ytid == Unescape(raw)
            pruned == _prunesleep(v_sleep)
            row == select_one(pruned, LAMBDA r : r.ytid = raw)
        IN  /\ Idle
            /\ row # 0 \/ Len(pruned) < MaxSleeps
            /\ v_sleep' = IF row # 0 THEN [pruned EXCEPT ![row] = [@ EXCEPT !.t = t]]
                          ELSE Append(pruned, [ytid |-> ytid, t |-> t])
            /\ obs' = [op |-> "sleep", ytid |-> ytid, t |-> t]
            /\ UNCHANGED <<now, v, vnames, vids, RSS, lists, job>>

\* '*' as the only argument of --unsleep
STAR == <<"*">>

\* YDL.unsleep: after the prune, '*' empties the registry; otherwise the
\* entries of each id given are deleted, unless the prune just removed an
\* entry of that id
unsleep(argset) ==
    \E ys \in argset :
        LET gone == Pruned(v_sleep)
            pruned == _prunesleep(v_sleep)
            ytids == {Unescape(y) : y \in ys}
        IN  /\ Idle
            /\ v_sleep' = IF ys = {STAR} THEN <<>>
                          ELSE delete(pruned, LAMBDA r : r.ytid \in ytids \ gone)
            /\ obs' = [op |-> "unsleep", ytids |-> ytids, all |-> ys = {STAR}]
            /\ UNCHANGED <<now, v, vnames, vids, RSS, lists, job>>

----------------------------------------------------------------------------
(* The downloader's error text, as its sequence of words, and its parsing  *)
(* by _download_actual                                                     *)

\* 'p' in w
IsSub(p, w) == \E i \in 0..(Len(w) - Len(p)) : SubSeq(w, i + 1, i + Len(p)) = p

\* the positions after which the words of phrase ph stand in txt, followed
\* by at least one more word (the phrases searched for end in a space)
PhraseAt(txt, ph) ==
    {i \in 0..(Len(txt) - Len(ph) - 1) : SubSeq(txt, i + 1, i + Len(ph)) = ph}

\* 'ph' in txt for a phrase that ends in a word: that word may run on in txt
HasPhrase(txt, ph) ==
    \E i \in 0..(Len(txt) - Len(ph)) :
        /\ SubSeq(txt, i + 1, i + Len(ph) - 1) = SubSeq(ph, 1, Len(ph) - 1)
        /\ StartsWith(txt[i + Len(ph)], ph[Len(ph)])

\* txt.split(ph)[1].split(' ')
AfterPhrase(txt, ph) ==
    LET i == Min(PhraseAt(txt, ph))
        later == {j \in PhraseAt(txt, ph) : j >= i + Len(ph)}
        stop == IF later = {} THEN Len(txt) ELSE Min(later)
    IN  SubSeq(txt, i + Len(ph) + 1, stop)

Numerals == <<"0", "1", "2", "3", "4", "5", "6", "7", "8", "9">>

DigitVal(c) == (CHOOSE i \in 1..10 : Numerals[i] = c) - 1

\* int(w); -1 stands for the ValueError
RECURSIVE int(_)
int(w) ==
    IF w = <<>> \/ \E k \in 1..Len(w) : w[k] \notin Range(Numerals) THEN -1
    ELSE IF Len(w) = 1 THEN DigitVal(w[1])
    ELSE 10 * int(SubSeq(w, 1, Len(w) - 1)) + DigitVal(w[Len(w)])

VIDEO_UNAVAILABLE == << <<"V", "i", "d", "e", "o">>, <<"u", "n", "a", "v", "a", "i", "l", "a", "b", "l", "e">> >>

MEMBERS_ONLY ==
    << <<"a", "c", "c", "e", "s", "s">>, <<"t", "o">>, <<"m", "e", "m", "b", "e", "r", "s", "-", "o", "n", "l", "y">>, <<"c", "o", "n", "t", "e", "n", "t">> >>

CONFIRM_YOUR_AGE ==
    << <<"S", "i", "g", "n">>, <<"i", "n">>, <<"t", "o">>,
       <<"c", "o", "n", "f", "i", "r", "m">>, <<"y", "o", "u", "r">>, <<"a", "g", "e">> >>

PRIVATE_VIDEO == << <<"P", "r", "i", "v", "a", "t", "e">>, <<"v", "i", "d", "e", "o">> >>

PREMIERES_IN == << <<"P", "r", "e", "m", "i", "e", "r", "e", "s">>, <<"i", "n">> >>

WILL_BEGIN_IN == << <<"w", "i", "l", "l">>, <<"b", "e", "g", "i", "n">>, <<"i", "n">> >>

THIS_LIVE_EVENT == << <<"T", "h", "i", "s">>, <<"l", "i", "v", "e">>, <<"e", "v", "e", "n", "t">> >>

BEGIN_IN_A_FEW_MOMENTS ==
    << <<"b", "e", "g", "i", "n">>, <<"i", "n">>, <<"a">>, <<"f", "e", "w">>,
       <<"m", "o", "m", "e", "n", "t", "s">> >>

HTTP_ERROR == << <<"H", "T", "T", "P">>, <<"E", "r", "r", "o", "r">>, <<"4", "0", "3">> >>

DAY == <<"d", "a", "y">>

HOUR == <<"h", "o", "u", "r">>

MINUTE == <<"m", "i", "n", "u", "t", "e">>

SECOND == <<"s", "e", "c", "o", "n", "d">>

\* the wait the site announces: a count and a unit, as it words them
Counts == {<<"1">>, <<"1", "0">>}

UnitWords == {DAY \o <<"s">>, HOUR, MINUTE \o <<"s">>, SECOND \o <<"s", ".">>}

Messages ==
    {VIDEO_UNAVAILABLE, MEMBERS_ONLY, CONFIRM_YOUR_AGE, PRIVATE_VIDEO, HTTP_ERROR,
     THIS_LIVE_EVENT \o << <<"w", "i", "l", "l">> >> \o BEGIN_IN_A_FEW_MOMENTS}
    \cup {PREMIERES_IN \o <<n, u>> : n \in Counts, u \in UnitWords}
    \cup {THIS_LIVE_EVENT \o WILL_BEGIN_IN \o <<n, u>> : n \in Counts, u \in UnitWords}

\* the wake instant the autosleep branch computes from the error text at
\* instant t: "1 day" for an unrecognised text, plus the two hours always added
autosleep_t_Flat(txt, t) == t + 2 * Hour

LIVE_VIDEO == << <<"l", "i", "v", "e">>, <<"v", "i", "d", "e", "o">> >>

LIVE_VIDEO_FOR == LIVE_VIDEO \o << <<"f", "o", "r">> >>

\* a premiere announced without a count
PREMIERES_SOON ==
    PREMIERES_IN \o << <<"a">>, <<"f", "e", "w">>, <<"m", "o", "m", "e", "n", "t", "s">> >>

\* a live video announced without the words 'live video for '
LIVE_NOW == << <<"T", "h", "i", "s">>, <<"i", "s">>, <<"a">> >> \o LIVE_VIDEO

\* "parts = ...; parts = parts[1].split(' ')": the words after the phrase the
\* chain of tests settles on, <<>> where txt.split(...) has no second part
autosleep_parts(txt) ==
    IF HasPhrase(txt, BEGIN_IN_A_FEW_MOMENTS) THEN << <<"1">>, HOUR >>
    ELSE IF PhraseAt(txt, WILL_BEGIN_IN) # {} THEN AfterPhrase(txt, WILL_BEGIN_IN)
    ELSE IF PhraseAt(txt, PREMIERES_IN) # {} THEN AfterPhrase(txt, PREMIERES_IN)
    ELSE IF HasPhrase(txt, LIVE_VIDEO)
    THEN IF PhraseAt(txt, LIVE_VIDEO_FOR) # {} THEN AfterPhrase(txt, LIVE_VIDEO_FOR)
         ELSE <<>>
    ELSE << <<"1">>, DAY >>

\* the IndexError of parts[1] and the ValueError of int(num), raised inside
\* the handler of DownloadError and so caught by none of its siblings
autosleep_raises(txt) ==
    LET parts == autosleep_parts(txt)
    IN  Len(parts) < 2 \/ int(parts[1]) = -1

autosleep_t(txt, t) ==
    LET parts == IF autosleep_raises(txt) THEN << <<"1">>, DAY >> ELSE autosleep_parts(txt)
        num == int(parts[1])
        unit == IF IsSub(DAY, parts[2]) THEN Day
                ELSE IF IsSub(HOUR, parts[2]) THEN Hour
                ELSE IF IsSub(MINUTE, parts[2]) THEN Minute
                ELSE IF IsSub(SECOND, parts[2]) THEN 1
                ELSE 0
    IN  IF unit = 0 THEN t + Day + 2 * Hour ELSE t + num * unit + 2 * Hour

----------------------------------------------------------------------------
(* YDL.download, download_videos, _download_video, _download_actual *)

\* what the info.json of a downloaded video says
ChannelOf(ytid) == <<"U", "C">>

PtimeOf(ytid) == <<0>>

\* what one call of ydl.download meets
Outcomes ==
    {[st |-> "ok"], [st |-> "interrupt"]} \cup {[st |-> "error", txt |-> m] : m \in Messages}

\* the classification that marks no item
MarksSkip_Never(txt) == FALSE

\* "'Video unavailable' in txt", "'access to members-only content' in txt",
\* "'Sign in to confirm your age' in txt", "'Private video' in txt": the item
\* is marked skip
MarksSkip(txt) ==
    \/ HasPhrase(txt, VIDEO_UNAVAILABLE)
    \/ HasPhrase(txt, MEMBERS_ONLY)
    \/ HasPhrase(txt, CONFIRM_YOUR_AGE)
    \/ HasPhrase(txt, PRIVATE_VIDEO)

\* an interrupt taken for one more failure of the item
KeyboardInterrupt_Swallowed == "None"

\* "except KeyboardInterrupt: return False"
KeyboardInterrupt == "False"

\* _download_actual: its return value and the tables it leaves
_download_actual(vt, st, ytid, autosleep, out) ==
    IF out.st = "ok" THEN [ret |-> "True", v |-> vt, v_sleep |-> st]
    ELSE IF out.st = "interrupt" THEN [ret |-> KeyboardInterrupt, v |-> vt, v_sleep |-> st]
    ELSE IF MarksSkip(out.txt)
    THEN [ret |-> "None",
          v |-> update(vt, LAMBDA r : r.ytid = ytid, LAMBDA r : [r EXCEPT !.skip = TRUE]),
          v_sleep |-> st]
    ELSE IF autosleep /\ autosleep_raises(out.txt)
    THEN [ret |-> "raise", v |-> vt, v_sleep |-> st]
    ELSE IF autosleep
    THEN [ret |-> "None", v |-> vt,
          v_sleep |-> Append(st, [ytid |-> ytid, t |-> autosleep_t(out.txt, now)])]
    ELSE [ret |-> "None", v |-> vt, v_sleep |-> st]

\* the rows download_videos selects, indexed by ytid, and the sorted ytids
SelectDownload(a) ==
    LET filt0 == {Unescape(y) : y \in a.filt}
        skipped == {y \in filt0 :
                       \E i \in 1..Len(lists["pl"]) :
                           i = select_one(lists["pl"], LAMBDA r : r.name = y)
                           /\ lists["pl"][i].skip}
        filt1 == filt0 \ skipped
        filt == filt1 \cup {vids[i].ytid : i \in Matching(vids, LAMBDA r : r.name \in filt1)}
        sel(r) == /\ filt1 # {} => (r.ytid \in filt \/ r.dname \in filt)
                  /\ ~r.skip
                  /\ a.ignore_old => r.utime = NULL
        rows == IF skipped # {} /\ filt1 = {} THEN {} ELSE Matching(v, sel)
        ys == {v[i].ytid : i \in rows}
    IN  [ytids |-> Sorted(ys),
         rows |-> [y \in ys |-> Max({i \in rows : v[i].ytid = y})]]

\* a batch over the ids still to do, or no batch when none is left
Batch(op, a, ytids, rows) ==
    IF ytids = <<>> THEN NULL
    ELSE [op |-> op, args |-> a, ytids |-> ytids, rows |-> rows, rounds |-> 0]

download(argset) ==
    \E a \in argset :
        LET s == SelectDownload(a)
        IN  /\ Idle
            /\ v_sleep' = _prunesleep(v_sleep)
            \* the rows are read once, before the first item
            /\ job' = Batch("download", a, s.ytids, [y \in DOMAIN s.rows |-> v[s.rows[y]]
                                                       @@ [rowid |-> s.rows[y]]])
            /\ obs' = [op |-> "download", ytids |-> s.ytids, pruned |-> Pruned(v_sleep)]
            /\ UNCHANGED <<now, v, vnames, vids, RSS, lists>>

InDownload == job # NULL /\ job.op = "download"

\* "if row_sleep['t'] > now: return"
StillSleeping(t) == t > now

\* --if-small met a file on disk that is large enough: _download_video_known
\* returns None before the downloader is called
SIZED == [st |-> "sized"]

\* the download succeeded and left no info.json beside the media file:
\* _download_video_TEMP raises Exception, which YDL.download catches around
\* the whole of download_videos
NO_INFO == [st |-> "noinfo"]

\* --if-small met a file of sz bytes on disk while the info.json advertises
\* max_sz bytes for its largest format; `then` is what the downloader meets
\* when it is called
IF_SMALL(sz, max_sz, then) == [st |-> "small", sz |-> sz, max_sz |-> max_sz, then |-> then]

\* a gate that keeps a file of exactly four fifths of the size
if_small_skips_Inclusive(sz, max_sz) == max_sz - sz <= 0 \/ 5 * sz >= 4 * max_sz

\* "if delta <= 0: return None / elif perc > 0.80: return None", with
\* delta = max_sz - sz and perc = sz / max_sz: for sizes in bytes the
\* quotient exceeds 0.80 exactly when 5 * sz > 4 * max_sz
if_small_skips(sz, max_sz) == max_sz - sz <= 0 \/ 5 * sz > 4 * max_sz

\* a coordinator that writes the row whatever the download returned
isinstance_dict_Always(ret) == TRUE

\* "if isinstance(dat, dict)": _download_video_TEMP and _download_video_known
\* return the dictionary only after _download_actual returned True
isinstance_dict(ret) == ret = "True"

\* _download_video on the first of the ids still to do
_download_video(outs) ==
    /\ InDownload
    /\ LET ytid == Head(job.ytids)
           row == job.rows[ytid]
           row_sleep == select_one(v_sleep, LAMBDA r : r.ytid = ytid)
           next == Batch("download", job.args, Tail(job.ytids), job.rows)
           seen == [op |-> "_download_video", ytid |-> ytid, gated |-> FALSE,
                    request |-> FALSE, unlinked |-> FALSE,
                    autosleep |-> ~job.args.noautosleep,
                    out |-> [st |-> "none"], ret |-> "None"]
       IN  IF row_sleep # 0 /\ StillSleeping(v_sleep[row_sleep].t)
           THEN /\ job' = next
                /\ obs' = [seen EXCEPT !.gated = TRUE]
                /\ UNCHANGED <<now, catalog>>
           ELSE LET woken == IF row_sleep = 0 THEN v_sleep
                             ELSE SubSeq(v_sleep, 1, row_sleep - 1)
                                  \o SubSeq(v_sleep, row_sleep + 1, Len(v_sleep))
                IN  IF row.atime # NULL /\ row.name = NULL
                    THEN \* _download_video_known raises ValueError: the batch ends
                         /\ v_sleep' = woken
                         /\ job' = NULL
                         /\ obs' = [seen EXCEPT !.ret = "raise"]
                         /\ UNCHANGED <<now, v, vnames, vids, RSS, lists>>
                    ELSE \E out \in {o \in outs : (o.st \in {SIZED.st, "small"} => row.atime # NULL)
                                                   /\ (o.st = NO_INFO.st => row.atime = NULL)} :
                         LET small == out.st = "small"
                             kept == small /\ if_small_skips(out.sz, out.max_sz)
                             r == IF out.st = SIZED.st \/ kept
                                  THEN [ret |-> "None", v |-> v, v_sleep |-> woken]
                                  ELSE IF out.st = NO_INFO.st
                                  THEN [ret |-> "raise", v |-> v, v_sleep |-> woken]
                                  ELSE _download_actual(v, woken, ytid, ~job.args.noautosleep,
                                                        IF small THEN out.then ELSE out)
                             title == TitleOf(ytid)
                             dat(x) ==
                                 IF row.atime = NULL
                                 THEN [x EXCEPT !.title = title,
                                                !.name = title_to_name(title),
                                                !.ptime = PtimeOf(ytid),
                                                !.ctime = IF row.ctime = NULL THEN <<now>>
                                                          ELSE row.ctime,
                                                !.atime = <<now>>,
                                                !.utime = <<now>>,
                                                !.dname = IF row.dname = MISCELLANEOUS
                                                          THEN ChannelOf(ytid) ELSE @]
                                 ELSE [x EXCEPT !.atime = <<now>>, !.utime = <<now>>]
                         IN  /\ Len(r.v_sleep) <= MaxSleeps
                             /\ v' = IF isinstance_dict(r.ret)
                                     THEN [r.v EXCEPT ![row.rowid] = dat(@)]
                                     ELSE r.v
                             /\ v_sleep' = r.v_sleep
                             /\ job' = IF r.ret \in {"False", "raise"} THEN NULL ELSE next
                             /\ obs' = [seen EXCEPT !.request = out.st # SIZED.st /\ ~kept,
                                                    !.unlinked = small /\ ~kept,
                                                    !.out = out, !.ret = r.ret]
                             /\ UNCHANGED <<now, vnames, vids, RSS, lists>>

\* "if retry_count >= 10"
RetryLimit == 10

\* "retry_count = 0": the first statement of every round of "while True"
RetryCountAtTop == 0

\* the texts of the transient failures: of a DownloadError and of a URLError
NetworkErrors == {"Network is unreachable", "Temporary failure in name resolution"}

\* one round of the loop of _download_actual, for the first of the ids still
\* to do, in which ydl.download fails with a transient network error: below
\* the limit the loop sleeps and goes round again, at the limit the error is
\* raised to the outer handlers, which return None (the handler of
\* DownloadError after the auto-sleep of one day for a text it does not
\* recognise).  job.rounds counts the rounds made for the item (the code
\* keeps no such count); the sleep entry _download_video removed before the
\* call is accounted for in the step that ends the item.
_download_actual_retry ==
    /\ InDownload
    /\ job.rounds < MaxRounds
    /\ LET ytid == Head(job.ytids)
           row == job.rows[ytid]
           row_sleep == select_one(v_sleep, LAMBDA r : r.ytid = ytid)
           woken == IF row_sleep = 0 THEN v_sleep
                    ELSE SubSeq(v_sleep, 1, row_sleep - 1)
                         \o SubSeq(v_sleep, row_sleep + 1, Len(v_sleep))
           retry_count == RetryCountAtTop
       IN  /\ ~(row_sleep # 0 /\ StillSleeping(v_sleep[row_sleep].t))
           /\ ~(row.atime # NULL /\ row.name = NULL)
           /\ \E e \in NetworkErrors :
                  IF retry_count >= RetryLimit
                  THEN /\ v_sleep' =
                              IF e = "Network is unreachable" /\ ~job.args.noautosleep
                              THEN Append(woken, [ytid |-> ytid, t |-> now + Day + 2 * Hour])
                              ELSE woken
                       /\ job' = Batch("download", job.args, Tail(job.ytids), job.rows)
                       /\ obs' = [op |-> "giveup", ytid |-> ytid, err |-> e,
                                  retry_count |-> retry_count, rounds |-> job.rounds + 1]
                  ELSE /\ v_sleep' = v_sleep
                       /\ job' = [job EXCEPT !.rounds = @ + 1]
                       /\ obs' = [op |-> "retry", ytid |-> ytid, err |-> e,
                                  retry_count |-> retry_count + 1, rounds |-> job.rounds + 1]
    /\ UNCHANGED <<now, v, vnames, vids, RSS, lists>>

----------------------------------------------------------------------------
(* YDL.sync_videos, YDL.sync_video *)

\* db.get_v: in SQL, AND binds tighter than OR
get_v(a) ==
    LET filt0 == {Unescape(y) : y \in a.filt}
        skipped == {y \in filt0 :
                       \E i \in 1..Len(lists["pl"]) :
                           i = select_one(lists["pl"], LAMBDA r : r.name = y)
                           /\ lists["pl"][i].skip}
        filt == filt0 \ skipped
        old_ok(r) == a.ignore_old => r.utime = NULL
        sel(r) == IF filt = {} THEN old_ok(r)
                  ELSE r.ytid \in filt \/ (r.dname \in filt /\ old_ok(r))
    IN  IF skipped # {} /\ filt = {} THEN {} ELSE Matching(v, sel)

\* sorted(rows, key ytid): a stable sort of the rowids
RowsByYtid(rows) ==
    LET order == Sorted({v[i].ytid : i \in rows})
        RECURSIVE Flat(_)
        Flat(k) == IF k > Len(order) THEN <<>>
                   ELSE LET same == {i \in rows : v[i].ytid = order[k]}
                            RECURSIVE Up(_)
                            Up(S) == IF S = {} THEN <<>>
                                     ELSE <<Min(S)>> \o Up(S \ {Min(S)})
                        IN  Up(same) \o Flat(k + 1)
    IN  Flat(1)

sync_videos(argset) ==
    \E a \in argset :
        LET rowids == RowsByYtid(get_v(a))
        IN  /\ Idle
            /\ v_sleep' = _prunesleep(v_sleep)
            /\ job' = Batch("sync_videos", a,
                            [k \in 1..Len(rowids) |-> v[rowids[k]].ytid],
                            [k \in 1..Len(rowids) |-> v[rowids[k]] @@ [rowid |-> rowids[k]]])
            /\ obs' = [op |-> "sync_videos"]
            /\ UNCHANGED <<now, v, vnames, vids, RSS, lists>>

InSyncVideos == job # NULL /\ job.op = "sync_videos"

\* what one call of ydl.get_info_video meets
Infos == {"ok", "payment", "error", "interrupt"}

\* "if skip:" in sync_video
SkipsInfo_Never(row) == FALSE

SkipsInfo(row) == row.skip

\* YDL.sync_video on the first of the rows still to do
sync_video ==
    /\ InSyncVideos
    /\ LET row == Head(job.rows)
           ytid == row.ytid
           next == Batch("sync_videos", job.args, Tail(job.ytids), Tail(job.rows))
           seen == [op |-> "sync_video", ytid |-> ytid, request |-> FALSE, out |-> "none"]
       IN  IF SkipsInfo(row)
           THEN /\ v' = [v EXCEPT ![row.rowid] = [@ EXCEPT !.atime = <<now>>]]
                /\ job' = next
                /\ obs' = seen
                /\ UNCHANGED <<now, vnames, vids, RSS, v_sleep, lists>>
           ELSE \E info \in Infos :
                    /\ v' = IF info = "ok"
                            THEN [v EXCEPT ![row.rowid] =
                                     [@ EXCEPT !.title = TitleOf(ytid),
                                               !.name = title_to_name(TitleOf(ytid)),
                                               !.ptime = PtimeOf(ytid),
                                               !.ctime = IF row.ctime = NULL THEN <<now>>
                                                         ELSE row.ctime,
                                               !.atime = <<now>>]]
                            ELSE v
                    /\ job' = IF info = "interrupt" THEN NULL ELSE next
                    /\ obs' = [seen EXCEPT !.request = TRUE, !.out = info]
                    /\ UNCHANGED <<now, vnames, vids, RSS, v_sleep, lists>>

----------------------------------------------------------------------------
(* The virtual filesystem (fuse.py).  While it is mounted, job holds the   *)
(* rootbase the links are built from.                                      *)

\* s.split(sep)
RECURSIVE Split(_, _)
Split(s, sep) ==
    IF \A k \in 1..Len(s) : s[k] # sep THEN <<s>>
    ELSE LET k == Min({j \in 1..Len(s) : s[j] = sep})
         IN  <<SubSeq(s, 1, k - 1)>> \o Split(SubSeq(s, k + 1, Len(s)), sep)

\* '/'.join(parts)
RECURSIVE Join(_)
Join(parts) ==
    IF parts = <<>> THEN <<>>
    ELSE IF Len(parts) = 1 THEN parts[1]
    ELSE parts[1] \o <<"/">> \o Join(Tail(parts))

\* the absolute path a symlink with this target stands for when it lies in
\* the directory dir: '..' steps back, '' and '.' stay
RECURSIVE Walk(_, _)
Walk(done, todo) ==
    IF todo = <<>> THEN done
    ELSE IF Head(todo) \in {<<>>, <<".">>} THEN Walk(done, Tail(todo))
    ELSE IF Head(todo) = <<".", ".">>
    THEN Walk(IF done = <<>> THEN done ELSE SubSeq(done, 1, Len(done) - 1), Tail(todo))
    ELSE Walk(Append(done, Head(todo)), Tail(todo))

Resolve(dir, target) ==
    LET full == IF target # <<>> /\ target[1] = "/" THEN target
                ELSE dir \o <<"/">> \o target
    IN  <<"/">> \o Join(Walk(<<>>, Split(full, "/")))

\* where the filesystem is mounted: a directory inside the archive root
MNT == CWD \o <<"/", "m">>

\* os.path.relpath(CWD, MNT)
RELBASE == <<".", ".">>

\* strftime of a timestamp of v, for the instants of January and February
\* 1970
TwoDigits(n) == <<Numerals[(n \div 10) + 1], Numerals[(n % 10) + 1]>>

\* the days of January
DaysOfJanuary == 31

strftime_Y(t) == IF t = NULL THEN NULL ELSE <<"1", "9", "7", "0">>

strftime_m(t) ==
    IF t = NULL THEN NULL
    ELSE IF t[1] \div Day < DaysOfJanuary THEN <<"0", "1">> ELSE <<"0", "2">>

strftime_d(t) ==
    IF t = NULL THEN NULL
    ELSE IF t[1] \div Day < DaysOfJanuary THEN TwoDigits(1 + (t[1] \div Day))
    ELSE TwoDigits(1 + (t[1] \div Day) - DaysOfJanuary)

DBName(typ) == CASE typ = "u" -> <<"u">> [] typ = "c" -> <<"c">>
                 [] typ = "ch" -> <<"c", "h">> [] typ = "pl" -> <<"p", "l">>

DATE_PUBLISH == <<"d", "a", "t", "e", "_", "p", "u", "b", "l", "i", "s", "h">>

DATE_DOWNLOAD == <<"d", "a", "t", "e", "_", "d", "o", "w", "n", "l", "o", "a", "d">>

\* the column a date directory lists by
DateCol(r, dd) == IF dd = DATE_PUBLISH THEN r.ptime ELSE r.utime

\* the rows of v with utime set, in rowid order, that P holds of
Downloaded(P(_)) ==
    LET RECURSIVE Up(_)
        Up(S) == IF S = {} THEN <<>> ELSE <<Min(S)>> \o Up(S \ {Min(S)})
    IN  Up(Matching(v, LAMBDA r : r.utime # NULL /\ P(r)))

\* the preferred name of a video, NULL for none
alias_of(ytid) ==
    LET i == select_one(vnames, LAMBDA r : r.ytid = ytid)
    IN  IF i = 0 THEN NULL ELSE vnames[i].name

\* str(x) inside a file name: None is written 'None'
Str(x) == IF x = NULL THEN <<"N", "o", "n", "e">> ELSE x

\* what readdir returns beside '.' and '..' for the directory with these
\* path parts: each entry with its name and, for a link, the video it is for
readdir(parts) ==
    LET dir(names) == [k \in 1..Len(names) |-> [name |-> names[k], ytid |-> NULL]]
        distinct(f(_), P(_)) ==
            LET rows == Downloaded(P)
                vals == {f(v[rows[k]]) : k \in 1..Len(rows)}
            IN  dir(Sorted(vals))
    IN  IF parts = << <<>> >>
        THEN [ok |-> TRUE,
              entries |-> dir(<< <<"c">>, <<"c", "h">>, <<"u">>, <<"p", "l">>, <<"v">> >>)]
        ELSE IF \E typ \in DBNames : parts[1] = DBName(typ)
        THEN LET typ == CHOOSE t \in DBNames : parts[1] = DBName(t)
             IN  IF Len(parts) = 1
                 THEN [ok |-> TRUE,
                       entries |-> [k \in 1..Len(lists[typ]) |->
                                       [name |-> lists[typ][k].name, ytid |-> NULL]]]
                 ELSE IF Len(parts) = 2
                 THEN LET rows == Downloaded(LAMBDA r : r.dname = parts[2])
                      IN  [ok |-> TRUE,
                           entries |-> [k \in 1..Len(rows) |->
                              LET r == v[rows[k]]
                                  a == alias_of(r.ytid)
                                  n == IF a # NULL THEN a ELSE r.name
                              IN  [name |-> Str(n) \o <<"-">> \o r.ytid \o <<".">> \o MKV,
                                   ytid |-> r.ytid]]]
                 ELSE [ok |-> TRUE, entries |-> <<>>]
        ELSE IF parts[1] = <<"v">>
        THEN IF Len(parts) = 1
             THEN [ok |-> TRUE, entries |-> dir(<<DATE_PUBLISH, DATE_DOWNLOAD>>)]
             ELSE IF parts[2] \notin {DATE_PUBLISH, DATE_DOWNLOAD}
             THEN [ok |-> FALSE, entries |-> <<>>]
             ELSE IF Len(parts) = 2
             THEN [ok |-> TRUE,
                   entries |-> distinct(LAMBDA r : strftime_Y(DateCol(r, parts[2])),
                                        LAMBDA r : TRUE)]
             ELSE IF Len(parts) = 3
             THEN [ok |-> TRUE,
                   entries |-> distinct(LAMBDA r : strftime_m(DateCol(r, parts[2])),
                                        LAMBDA r : strftime_Y(r.ptime) = parts[3])]
             ELSE IF Len(parts) = 4
             THEN [ok |-> TRUE,
                   entries |-> distinct(LAMBDA r : strftime_d(DateCol(r, parts[2])),
                                        LAMBDA r : /\ strftime_Y(r.ptime) = parts[3]
                                                   /\ strftime_m(r.ptime) = parts[4])]
             ELSE IF Len(parts) = 5
             THEN LET rows == Downloaded(LAMBDA r :
                                  /\ strftime_Y(DateCol(r, parts[2])) = parts[3]
                                  /\ strftime_m(DateCol(r, parts[2])) = parts[4]
                                  /\ strftime_d(DateCol(r, parts[2])) = parts[5])
                  IN  [ok |-> TRUE,
                       entries |-> [k \in 1..Len(rows) |->
                          [name |-> v[rows[k]].dname \o <<"-">> \o Str(v[rows[k]].name)
                                    \o <<"-">> \o v[rows[k]].ytid \o <<".">> \o MKV,
                           ytid |-> v[rows[k]].ytid]]]
             ELSE [ok |-> TRUE, entries |-> <<>>]
        ELSE [ok |-> FALSE, entries |-> <<>>]

\* os.path.splitext(fname)[0]
splitext_root(fname) ==
    LET dots == {k \in 2..Len(fname) : fname[k] = "."}
    IN  IF dots = {} THEN fname ELSE SubSeq(fname, 1, Max(dots) - 1)

\* _ydl_fuse.video_path: the link target, or the failure of the call.  The
\* names FuseOSError and IndexError end the call with an exception.
video_path(rootbase, path) ==
    LET r == IF StartsWith(rootbase, <<".", ".">>)
             THEN <<".", ".", "/", ".", ".", "/">> \o rootbase ELSE rootbase
    IN  IF Len(path) < 2 THEN [ok |-> FALSE, err |-> "IndexError", target |-> <<>>]
        ELSE IF path[2] \in {DBName(t) : t \in DBNames}
        THEN [ok |-> TRUE, err |-> "none",
              target |-> r \o <<"/">> \o path[Len(path) - 1] \o <<"/">> \o path[Len(path)]]
        ELSE IF path[1] = <<"v">>
        THEN LET fnameroot == splitext_root(path[Len(path)])
                 dashes == {k \in 1..Len(fnameroot) : fnameroot[k] = "-"}
             IN  \* fnameroot.split('-', 1): the text before and after the first '-'
                 IF dashes = {}
                 THEN [ok |-> FALSE, err |-> "IndexError", target |-> <<>>]
                 ELSE [ok |-> TRUE, err |-> "none",
                       target |-> r \o <<"/">> \o SubSeq(fnameroot, 1, Min(dashes) - 1)
                                  \o <<"/">>
                                  \o SubSeq(fnameroot, Min(dashes) + 1, Len(fnameroot))
                                  \o <<".">> \o MKV]
        ELSE [ok |-> FALSE, err |-> "NameError", target |-> <<>>]

\* YDL.fuse: the sleep registry is pruned, then the filesystem is mounted
\* with the absolute or the relative rootbase
fuse ==
    \E absolute \in BOOLEAN :
        /\ Idle
        /\ v_sleep' = _prunesleep(v_sleep)
        /\ job' = [op |-> "fuse", rootbase |-> IF absolute THEN CWD ELSE RELBASE]
        /\ obs' = [op |-> "fuse"]
        /\ UNCHANGED <<now, v, vnames, vids, RSS, lists>>

Mounted == job # NULL /\ job.op = "fuse"

\* ctrl-c ends the mount
unmount ==
    /\ Mounted
    /\ job' = NULL
    /\ obs' = [op |-> "unmount"]
    /\ UNCHANGED <<now, catalog>>

\* the year, month and day directory of the instant t under v/<dd>
DateDirs(dd, t) ==
    {<< <<"v">>, dd, strftime_Y(t) >>,
     << <<"v">>, dd, strftime_Y(t), strftime_m(t) >>,
     << <<"v">>, dd, strftime_Y(t), strftime_m(t), strftime_d(t) >>}

\* the directories of the filesystem that are listed: the root, the list
\* tables, the lists in them by name and by alias, and the date trees of the
\* first day and of every date an item carries
VfsDirs ==
    {<< <<>> >>, << <<"v">> >>}
    \cup {<<DBName(t)>> : t \in DBNames}
    \cup UNION {{<<DBName(t), lists[t][k].name>> : k \in 1..Len(lists[t])} : t \in DBNames}
    \cup UNION {{<<DBName(t), lists[t][k].alias>> :
                    k \in {j \in 1..Len(lists[t]) : lists[t][j].alias # NULL}} : t \in DBNames}
    \cup UNION {{<< <<"v">>, dd >>} \cup DateDirs(dd, <<0>>)
                \cup UNION {DateDirs(dd, t) :
                               t \in ({v[i].ptime : i \in 1..Len(v)}
                                       \cup {v[i].utime : i \in 1..Len(v)}) \ {NULL}}
                : dd \in {DATE_PUBLISH, DATE_DOWNLOAD}}

\* _ydl_fuse.readdir
vfs_readdir ==
    \E parts \in VfsDirs :
        /\ Mounted
        /\ obs' = [op |-> "readdir", path |-> parts, ret |-> readdir(parts)]
        /\ UNCHANGED <<now, catalog, job>>

\* _ydl_fuse.readlink on a file entry that a listing of a directory returned
vfs_readlink ==
    \E parts \in VfsDirs :
        LET ls == readdir(parts).entries
        IN  \E k \in 1..Len(ls) :
                /\ Mounted
                /\ ls[k].ytid # NULL
                /\ LET path == IF parts = << <<>> >> THEN <<ls[k].name>>
                               ELSE Append(parts, ls[k].name)
                       ret == video_path(job.rootbase, path)
                   IN  obs' = [op |-> "readlink", path |-> path, ytid |-> ls[k].ytid,
                               ok |-> ret.ok, err |-> ret.err, target |-> ret.target,
                               resolved |-> IF ret.ok
                                            THEN Resolve(MNT \o <<"/">> \o Join(parts),
                                                         ret.target)
                                            ELSE <<>>]
                /\ UNCHANGED <<now, catalog, job>>

\* the operations of _ydl_fuse that would change something
MutatingOps ==
    {"chmod", "chown", "mknod", "mkdir", "rmdir", "unlink", "symlink", "rename", "link",
     "utimens", "open", "create", "truncate", "write"}

\* "raise fuse.FuseOSError(errno.EACCES)"
vfs_errno_None(op) == "none"

vfs_errno(op) == "EACCES"

\* a mutating operation on the root or on the directory of a list
vfs_mutate ==
    \E op \in MutatingOps, parts \in {p \in VfsDirs : p[1] # <<"v">>} :
        /\ Mounted
        /\ obs' = [op |-> op, path |-> parts, err |-> vfs_errno(op)]
        /\ UNCHANGED <<now, catalog, job>>

----------------------------------------------------------------------------
(* SpecName: canonicalization of a title.  Each step applies title_to_name *)
(* to the result of the step before, as YDL.name does to the name it is    *)
(* given before it accepts it.                                             *)

InitName ==
    /\ now = 0
    /\ EmptyCatalog
    /\ job = NULL
    /\ \E s \in SeqsUpTo(TitleChars, MaxTitleLen) :
          obs = [op |-> "title", s |-> s, n |-> 0]

Canonicalize ==
    /\ obs.op \in {"title", "title_to_name"}
    /\ obs.n < 2
    /\ obs' = [op |-> "title_to_name", arg |-> obs.s, s |-> title_to_name(obs.s),
               n |-> obs.n + 1]
    /\ UNCHANGED <<now, catalog, job>>

NextName == Canonicalize

SpecName == InitName /\ [][NextName]_vars

\* C8: name canonicalization is idempotent: applying title_to_name to a
\* result of title_to_name returns it unchanged.
C8_Idempotent ==
    (obs.op = "title_to_name" /\ obs.n = 2) => obs.s = obs.arg

----------------------------------------------------------------------------
(* SpecPath: format_v_names on every combination of its arguments *)

PathDNames == {<<"M", "I", "T">>, <<"U", "C", "-", "q">>, MISCELLANEOUS}

PathNames == {NULL, <<"a">>, <<"a", " ", "b">>}

PathAliases == {NULL, <<"L", "e", "c">>, <<"a">>}

PathSuffixes == {NULL, MKV, INFO_JSON}

PathYtids == {YtidOf(i) : i \in 1..3}

InitPath ==
    /\ now = 0
    /\ EmptyCatalog
    /\ job = NULL
    /\ obs = [op |-> "none"]

FormatVNames ==
    \E dname \in PathDNames, name \in PathNames, alias \in PathAliases,
       ytid \in PathYtids, suffix \in PathSuffixes :
        /\ obs' = [op |-> "format_v_names", dname |-> dname, name |-> name,
                   alias |-> alias, ytid |-> ytid, suffix |-> suffix,
                   ret |-> format_v_names(dname, name, alias, ytid, suffix)]
        /\ UNCHANGED <<now, catalog, job>>

NextPath == FormatVNames

SpecPath == InitPath /\ [][NextPath]_vars

\* the name a video's files carry: the preferred name when one is set, else
\* the item's name, else TEMP
EffectiveName(name, alias) ==
    IF alias # NULL THEN alias ELSE IF name # NULL THEN name ELSE TEMP

\* C9: format_v_names returns a directory ending in /D/I[0] and the file
\* name <preferred name, else name, else TEMP>-I.S (no .S without a suffix).
C9_PathFormat ==
    obs.op = "format_v_names" =>
        /\ EndsWith(obs.ret[1], <<"/">> \o obs.dname \o <<"/", obs.ytid[1]>>)
        /\ obs.ret[2] = EffectiveName(obs.name, obs.alias) \o <<"-">> \o obs.ytid
                         \o (IF obs.suffix = NULL THEN <<>> ELSE <<".">> \o obs.suffix)

\* a preferred name and an item name are both present, with a suffix
C9_Witness ==
    /\ obs.op = "format_v_names"
    /\ obs.alias # NULL /\ obs.name # NULL /\ obs.alias # obs.name /\ obs.suffix = MKV
    /\ obs.ret[2] = obs.alias \o <<"-">> \o obs.ytid \o <<".">> \o MKV

----------------------------------------------------------------------------
(* SpecSync: registration of a user and sync-lists passes over it          *)

SyncTargets == {[typ |-> "u", name |-> <<"M">>]}

SyncArgs ==
    {[force |-> f, no_rss |-> n, ignore_old |-> FALSE, filt |-> {}] : f, n \in BOOLEAN}

Init ==
    /\ now = 0
    /\ EmptyCatalog
    /\ job = NULL
    /\ obs = NoObs

NextSync ==
    \/ Tick
    \/ Add(SyncTargets)
    \/ sync_list(SyncArgs)
    \/ __sync_list
    \/ _sync_list_end

SpecSync == Init /\ [][NextSync]_vars

\* a __sync_list step that found the feed Fresh without force
FreshStep == obs'.op = "__sync_list" /\ obs'.verdict = "Fresh" /\ ~obs'.force

\* C3 as stated: when the feed probe of a source returns Fresh and force is
\* not set, the sync-lists pass inserts, updates or deletes no catalog row
\* for that source (the feed-URL cache included).
C3_FreshNoMutation == [][FreshStep => catalog' = catalog]_vars

\* C3 amended: on a Fresh verdict without force no item, membership, source,
\* rename or sleep row changes and the source is not marked done (so its
\* atime stays); the only row that may appear is the feed-URL cache entry of
\* this source, appended on a cache miss.
C3_FreshOnlyCachesUrl ==
    [][FreshStep =>
          /\ v' = v /\ vids' = vids /\ lists' = lists
          /\ vnames' = vnames /\ v_sleep' = v_sleep
          /\ obs'.c_name \notin Range(job'.done)
          /\ \/ RSS' = RSS
             \/ /\ select_one(RSS, LAMBDA r : r.typ = obs'.typ /\ r.name = obs'.c_name) = 0
                /\ RSS' = Append(RSS, [typ |-> obs'.typ, name |-> obs'.key,
                                       url |-> FeedUrl(obs'.typ, obs'.key),
                                       atime |-> <<now>>])]_vars

\* a Fresh verdict on a non-empty feed, without force, reached with the
\* feed URL found on the page and cached by this very step
C3_Witness ==
    /\ obs.op = "__sync_list" /\ obs.verdict = "Fresh" /\ ~obs.force
    /\ obs.new # <<>>
    /\ \E i \in 1..Len(RSS) : RSS[i].name = obs.key /\ RSS[i].atime = <<now>>
    /\ \E i \in 1..Len(vids) : vids[i].name = obs.key /\ vids[i].ytid = obs.new[1]

\* C4: after a reconciliation of a source whose previous membership held an
\* iid that the new enumeration no longer lists, that membership row still
\* exists with idx = -1 and the item row for that iid still exists.
C4_Provenance ==
    [][(obs'.op = "__sync_list" /\ obs'.full /\ obs'.path # "error") =>
          \A i \in 1..Len(vids) :
              (vids[i].name = obs'.key /\ vids[i].ytid \notin Range(obs'.cur)) =>
                  /\ \E j \in 1..Len(vids') : /\ vids'[j].name = obs'.key
                                              /\ vids'[j].ytid = vids[i].ytid
                                              /\ vids'[j].idx = -1
                  /\ \E k \in 1..Len(v') : v'[k].ytid = vids[i].ytid]_vars

\* C5: in every reachable catalog state there is at most one membership row
\* per (source key, iid).
C5_MembershipUnique ==
    \A i, j \in 1..Len(vids) :
        (vids[i].name = vids[j].name /\ vids[i].ytid = vids[j].ytid) => i = j

\* C27: when the feed of a source cannot be obtained (no feed URL found, a
\* non-200 response to the feed request, or the retries exhausted), the full
\* enumeration is run for that source: it is not passed over as fresh.
C27_FullListingFallback ==
    [][(obs'.op = "__sync_list" /\ obs'.verdict \in {"NoFeed", "Failed"}) => obs'.full]_vars

----------------------------------------------------------------------------
(* SpecDL: stand-alone videos registered, put to sleep and downloaded     *)

DLTargets == {[typ |-> "v", name |-> y] : y \in Ytids}

DLSleepTimes == {Hour, 2 * Hour}

DLArgs ==
    {[filt |-> f, ignore_old |-> FALSE, noautosleep |-> n] :
        f \in {{}, {Escape(YtidOf(MaxYtids))}}, n \in BOOLEAN}

NextDL ==
    \/ Tick
    \/ Add(DLTargets)
    \/ sleep({Escape(y) : y \in Ytids}, DLSleepTimes)
    \/ download(DLArgs)
    \/ _download_video(Outcomes)

SpecDL == Init /\ [][NextDL]_vars

\* C1: for any iid that has a sleep entry with wake instant t, the download
\* coordinator never invokes the downloader for that iid while now < t, and
\* the gated call returns with no catalog change.
C1_SleepGate ==
    [][obs'.op = "_download_video" =>
          /\ obs'.request =>
                 \A i \in 1..Len(v_sleep) :
                     v_sleep[i].ytid = obs'.ytid => ~(now < v_sleep[i].t)
          /\ obs'.gated => catalog' = catalog]_vars

\* the waits of C10, in seconds, beside the words the site uses for them
C10_Counts == {[w |-> <<"1">>, n |-> 1], [w |-> <<"1", "0">>, n |-> 10]}

C10_Units ==
    {[w |-> <<"d", "a", "y", "s">>, secs |-> 86400],
     [w |-> <<"h", "o", "u", "r">>, secs |-> 3600],
     [w |-> <<"m", "i", "n", "u", "t", "e", "s">>, secs |-> 60],
     [w |-> <<"s", "e", "c", "o", "n", "d", "s", ".">>, secs |-> 1]}

\* C10: with auto-sleep enabled, when the downloader fails with 'Premieres in
\* N unit' or 'will begin in N unit', the coordinator inserts a sleep entry
\* for the iid with wake instant now + N unit + 2 hours, and leaves the item
\* row (utime, skip) as it was.
C10_PremiereSleeps ==
    [][\A c \in C10_Counts, u \in C10_Units,
          intro \in {PREMIERES_IN, THIS_LIVE_EVENT \o WILL_BEGIN_IN} :
          (/\ obs'.op = "_download_video" /\ obs'.request /\ obs'.autosleep
           /\ obs'.out = [st |-> "error", txt |-> intro \o <<c.w, u.w>>])
          => /\ LET first == select_one(v_sleep, LAMBDA r : r.ytid = obs'.ytid)
                    woken == [k \in (1..Len(v_sleep)) \ {first} |-> v_sleep[k]]
                    kept == (1..Len(v_sleep')) \ {Len(v_sleep')}
                IN  /\ v_sleep'[Len(v_sleep')] =
                           [ytid |-> obs'.ytid, t |-> now + c.n * u.secs + 2 * 3600]
                    /\ Len(v_sleep') = Len(v_sleep) + (IF first = 0 THEN 1 ELSE 0)
                    /\ \A k \in kept :
                           v_sleep'[k] = v_sleep[IF first # 0 /\ k >= first THEN k + 1 ELSE k]
             /\ v' = v
             /\ obs'.ret = "None"]_vars

\* 'Premieres in 10 minutes' met an hour into the run: the entry wakes at
\* now + 10 minutes + 2 hours and the item has no utime
C10_Witness ==
    /\ obs.op = "_download_video" /\ obs.request /\ obs.autosleep
    /\ obs.out.st = "error"
    /\ obs.out.txt = PREMIERES_IN \o << <<"1", "0">>, <<"m", "i", "n", "u", "t", "e", "s">> >>
    /\ now = 3600
    /\ \E i \in 1..Len(v_sleep) : v_sleep[i] = [ytid |-> obs.ytid, t |-> 3600 + 600 + 7200]
    /\ \E i \in 1..Len(v) : v[i].ytid = obs.ytid /\ v[i].utime = NULL /\ ~v[i].skip

\* the texts of C11, as the downloader words them
C11_Texts ==
    {<< <<"V", "i", "d", "e", "o">>, <<"u", "n", "a", "v", "a", "i", "l", "a", "b", "l", "e">> >>,
     << <<"a", "c", "c", "e", "s", "s">>, <<"t", "o">>,
        <<"m", "e", "m", "b", "e", "r", "s", "-", "o", "n", "l", "y">>,
        <<"c", "o", "n", "t", "e", "n", "t">> >>,
     << <<"S", "i", "g", "n">>, <<"i", "n">>, <<"t", "o">>, <<"c", "o", "n", "f", "i", "r", "m">>,
        <<"y", "o", "u", "r">>, <<"a", "g", "e">> >>,
     << <<"P", "r", "i", "v", "a", "t", "e">>, <<"v", "i", "d", "e", "o">> >>}

\* C11: when the downloader fails with 'Video unavailable', the members-only
\* text, the confirm-your-age text or 'Private video', every row of the item
\* has skip = true afterwards and no other item row changes, no sleep entry
\* is inserted (with auto-sleep enabled or not), the call returns None and
\* the batch goes on with the ids that were left.
C11_UnavailableMarksSkip ==
    [][(/\ obs'.op = "_download_video" /\ obs'.request
        /\ obs'.out.st = "error" /\ obs'.out.txt \in C11_Texts)
       => /\ Len(v') = Len(v)
          /\ \A i \in 1..Len(v) :
                 v'[i] = IF v[i].ytid = obs'.ytid THEN [v[i] EXCEPT !.skip = TRUE] ELSE v[i]
          /\ Len(v_sleep') <= Len(v_sleep)
          /\ \A k \in 1..Len(v_sleep') : \E j \in 1..Len(v_sleep) : v_sleep[j] = v_sleep'[k]
          /\ obs'.ret = "None"
          /\ IF Len(job.ytids) > 1
             THEN job' # NULL /\ job'.op = "download" /\ job'.ytids = Tail(job.ytids)
             ELSE job' = NULL]_vars

\* 'Private video' met with auto-sleep enabled while another item is still to
\* do: the item is marked skip, it has no sleep entry and the batch goes on
C11_Witness ==
    /\ obs.op = "_download_video" /\ obs.request /\ obs.autosleep
    /\ obs.out.st = "error"
    /\ obs.out.txt = << <<"P", "r", "i", "v", "a", "t", "e">>, <<"v", "i", "d", "e", "o">> >>
    /\ \E i \in 1..Len(v) : v[i].ytid = obs.ytid /\ v[i].skip
    /\ \A k \in 1..Len(v_sleep) : v_sleep[k].ytid # obs.ytid
    /\ job # NULL /\ job.op = "download" /\ job.ytids # <<>>

----------------------------------------------------------------------------
(* SpecRetry: downloads over a network that fails as often as it likes     *)

RetryArgs == {[filt |-> {}, ignore_old |-> FALSE, noautosleep |-> n] : n \in BOOLEAN}

RetryOutcomes == {[st |-> "ok"], [st |-> "interrupt"], [st |-> "error", txt |-> HTTP_ERROR]}

NextRetry ==
    \/ Tick
    \/ Add(DLTargets)
    \/ download(RetryArgs)
    \/ _download_actual_retry
    \/ _download_video(RetryOutcomes)

SpecRetry == Init /\ [][NextRetry]_vars

\* C12: the download step of one item retries a transient network failure
\* at most 10 times: no item sees an eleventh retry.
C12_BoundedRetry == obs.op = "retry" => obs.rounds <= 10

----------------------------------------------------------------------------
(* SpecSkip: stand-alone videos registered, marked skip or not, synced and *)
(* downloaded under every kind of filter                                   *)

SkipMarks == {{Escape(y)} : y \in Ytids}

SkipArgs ==
    {[filt |-> f, ignore_old |-> FALSE, noautosleep |-> TRUE] :
        f \in {{}, {Escape(YtidOf(MaxYtids))}, {MISCELLANEOUS}}}

SkipOutcomes ==
    {[st |-> "ok"], [st |-> "interrupt"], [st |-> "error", txt |-> VIDEO_UNAVAILABLE]}

NextSkip ==
    \/ Tick
    \/ Add(DLTargets)
    \/ skip(SkipMarks)
    \/ unskip(SkipMarks)
    \/ sync_videos(SkipArgs)
    \/ sync_video
    \/ download(SkipArgs)
    \/ _download_video(SkipOutcomes)

SpecSkip == Init /\ [][NextSkip]_vars

\* C2: for any item with skip = true, neither sync_video nor _download_video
\* makes an extractor or downloader request for it, whatever filter selected
\* the batch.
C2_SkipNoFetch ==
    [][(obs'.op \in {"sync_video", "_download_video"} /\ obs'.request) =>
          \A i \in 1..Len(v) : v[i].ytid = obs'.ytid => ~v[i].skip]_vars

\* a skipped item met by a sync-items batch: its atime is bumped without any
\* request
C2_Witness ==
    /\ obs.op = "sync_video" /\ ~obs.request
    /\ \E i \in 1..Len(v) : v[i].ytid = obs.ytid /\ v[i].skip /\ v[i].atime = <<now>>
    /\ \E i \in 1..Len(v) : v[i].ytid # obs.ytid /\ v[i].utime # NULL

\* C17: within a sync-items batch and within a download batch the items are
\* attempted in ascending lexicographic order of iid: the item a step
\* attempts is the first of the batch's remaining ids and none of the
\* others is less than it.
C17_AscendingOrder ==
    [][obs'.op \in {"sync_video", "_download_video"} =>
          /\ obs'.ytid = Head(job.ytids)
          /\ \A k \in 2..Len(job.ytids) : ~LexLess(job.ytids[k], obs'.ytid)
          /\ job' # NULL => job'.ytids = Tail(job.ytids)]_vars

\* a download batch has attempted -xxxxxxxxx2 and has axxxxxxxxx1 left,
\* although axxxxxxxxx1 was registered first
C17_Witness ==
    /\ obs.op = "_download_video" /\ obs.request
    /\ obs.ytid = YtidOf(2)
    /\ job # NULL /\ job.op = "download" /\ YtidOf(1) \in Range(job.ytids)
    /\ v[1].ytid = YtidOf(1)
    /\ LexLess(YtidOf(2), YtidOf(1))

\* C28: for an item registered from a stand-alone watch URL, in every
\* sequence of sync-items and download operations, once a download of the
\* item has succeeded (utime is set) its dname is no longer MISCELLANEOUS.
C28_MiscellaneousTransient ==
    \A i \in 1..Len(v) : v[i].utime # NULL => v[i].dname # MISCELLANEOUS

----------------------------------------------------------------------------
(* SpecMark: stand-alone videos registered, put to sleep, woken, marked    *)
(* skip and downloaded while the clock runs                                *)

MarkArgs == {[filt |-> {}, ignore_old |-> FALSE, noautosleep |-> n] : n \in BOOLEAN}

MarkOutcomes ==
    {[st |-> "ok"], [st |-> "error", txt |-> VIDEO_UNAVAILABLE],
     [st |-> "error", txt |-> PREMIERES_IN \o << <<"1">>, HOUR >>]}

UnsleepArgs == {{STAR}} \cup {{Escape(y)} : y \in Ytids}

MarkSyncArgs == {[force |-> FALSE, no_rss |-> FALSE, ignore_old |-> FALSE, filt |-> {}]}

\* the wake instants given to --sleep: one the clock passes, one it does not
MarkSleepTimes == {Minute, 2 * Hour}

NextMark ==
    \/ Tick
    \/ Add(DLTargets)
    \/ sleep({Escape(y) : y \in Ytids}, MarkSleepTimes)
    \/ unsleep(UnsleepArgs)
    \/ skip(SkipMarks)
    \/ sync_list(MarkSyncArgs)
    \/ _sync_list_end
    \/ sync_videos(MarkArgs)
    \/ sync_video
    \/ download(MarkArgs)
    \/ _download_video(MarkOutcomes)

SpecMark == Init /\ [][NextMark]_vars

\* C13: whenever an item row goes from skip = false to skip = true (by the
\* skip command or by the classification of a download error), no sleep entry
\* of that iid is left by the step.
C13_SkipClearsSleep ==
    [][\A i \in 1..Len(v) :
          (v'[i].skip /\ ~v[i].skip) =>
              \A k \in 1..Len(v_sleep') : v_sleep'[k].ytid # v[i].ytid]_vars

\* C14: the sleep registry never holds more than one entry for an iid.
C14_OneEntryPerId ==
    \A i, j \in 1..Len(v_sleep) : v_sleep[i].ytid = v_sleep[j].ytid => i = j

\* the entries a prune at the start of an operation keeps
C15_Kept == SelectSeq(v_sleep, LAMBDA r : r.t > now)

\* C15: the operations sync-lists, sync-items, download, sleep and unsleep
\* begin with a prune: every entry whose wake instant is not after now is
\* deleted and every entry whose wake instant is after now is left as it
\* was, but for what sleep and unsleep then do to the ids they are given.
C15_Prune ==
    [][/\ obs'.op \in {"sync_list", "sync_videos", "download"} => v_sleep' = C15_Kept
       /\ obs'.op = "sleep" =>
              LET other(r) == r.ytid # obs'.ytid
              IN  /\ SelectSeq(v_sleep', other) = SelectSeq(C15_Kept, other)
                  /\ \A k \in 1..Len(v_sleep') :
                         \/ v_sleep'[k].t > now
                         \/ v_sleep'[k] = [ytid |-> obs'.ytid, t |-> obs'.t]
       /\ obs'.op = "unsleep" =>
              LET other(r) == r.ytid \notin obs'.ytids
              IN  /\ obs'.all \/ SelectSeq(v_sleep', other) = SelectSeq(C15_Kept, other)
                  /\ \A k \in 1..Len(v_sleep') :
                         /\ v_sleep'[k].t > now
                         /\ \E j \in 1..Len(v_sleep) : v_sleep[j] = v_sleep'[k]]_vars

\* a download begun at 01:00 has pruned the entry that woke at 00:01 and kept
\* the one that wakes at 02:00
C15_Witness ==
    /\ obs.op = "download" /\ now = 3600
    /\ obs.pruned = {YtidOf(2)}
    /\ v_sleep = <<[ytid |-> YtidOf(1), t |-> 7200]>>
    /\ \E i \in 1..Len(v) : v[i].ytid = YtidOf(2) /\ v[i].utime = NULL
    /\ job # NULL /\ YtidOf(2) \in Range(job.ytids)

\* C16: when _download_video comes to an item all of whose sleep entries have
\* a wake instant the clock has passed, it invokes the downloader (the item
\* is not reported as sleeping) and none of those entries is left.
C16_WakeUp ==
    [][LET mine == Matching(v_sleep, LAMBDA r : r.ytid = obs'.ytid)
       IN  (/\ obs'.op = "_download_video"
            /\ mine # {}
            /\ \A i \in mine : v_sleep[i].t < now)
           => /\ ~obs'.gated /\ obs'.request
              /\ \A k \in 1..Len(v_sleep') :
                     v_sleep'[k].ytid = obs'.ytid => ~(v_sleep'[k].t < now)]_vars

----------------------------------------------------------------------------
(* SpecOrder: one source of each variant registered and reconciled by      *)
(* sync-lists passes without the feed                                      *)

OrderTargets ==
    {[typ |-> "u", name |-> <<"M">>], [typ |-> "c", name |-> <<"C">>],
     [typ |-> "ch", name |-> <<"U", "C">>], [typ |-> "pl", name |-> <<"P", "L">>]}

OrderSyncArgs == {[force |-> f, no_rss |-> TRUE, ignore_old |-> FALSE, filt |-> {}] : f \in BOOLEAN}

NextOrder ==
    \/ Add(OrderTargets)
    \/ sync_list(OrderSyncArgs)
    \/ __sync_list
    \/ _sync_list_end

SpecOrder == Init /\ [][NextOrder]_vars

\* the variants that come before variant typ in an order of the list tables
C18_Earlier(order, typ) ==
    {order[k] : k \in {j \in 1..Len(order) : \E m \in (j + 1)..Len(order) : order[m] = typ}}

\* when a source of a variant is reconciled, no table of a variant that
\* comes earlier in the order and holds a source is still to come in the pass
C18_InOrder(order) ==
    obs'.op = "__sync_list" =>
        \A t \in C18_Earlier(order, obs'.typ) : t \notin Range(job.z) \/ lists[t] = <<>>

C19_FirstWriterWins ==
    [][obs'.op = "__sync_list" =>
          \A i \in 1..Len(v) : v'[i].ytid = v[i].ytid /\ v'[i].dname = v[i].dname]_vars

\* a source has been reconciled whose listing holds an item that another
\* source inserted: the item still has that other source's dname
C19_Witness ==
    /\ obs.op = "__sync_list" /\ obs.path = "upsert"
    /\ \E i \in 1..Len(v) :
           /\ v[i].ytid \in Range(obs.cur)
           /\ v[i].dname # obs.key
           /\ \E k \in 1..Len(vids) : vids[k].ytid = v[i].ytid /\ vids[k].name = v[i].dname
           /\ \E k \in 1..Len(vids) : vids[k].ytid = v[i].ytid /\ vids[k].name = obs.key

----------------------------------------------------------------------------
(* SpecItems: a video, a user and a playlist registered; sync-lists passes *)
(* that probe the feed, forced or not, sync-items and download             *)

ItemTargets ==
    {[typ |-> "v", name |-> YtidOf(1)], [typ |-> "u", name |-> <<"M">>],
     [typ |-> "pl", name |-> <<"P", "L">>]}

ItemSyncArgs ==
    {[force |-> f, no_rss |-> FALSE, ignore_old |-> FALSE, filt |-> {}] : f \in BOOLEAN}

ItemArgs == {[filt |-> {}, ignore_old |-> FALSE, noautosleep |-> TRUE]}

NextItems ==
    \/ Add(ItemTargets)
    \/ sync_list(ItemSyncArgs)
    \/ __sync_list
    \/ _sync_list_end
    \/ sync_videos(ItemArgs)
    \/ sync_video
    \/ download(ItemArgs)
    \/ _download_video({[st |-> "ok"]})

SpecItems == Init /\ [][NextItems]_vars

\* C20: no two item rows share an iid.
C20_ItemUnique ==
    \A i, j \in 1..Len(v) : v[i].ytid = v[j].ytid => i = j

\* an item that entered the catalog as a feed ghost (it has no ctime) has
\* since been enumerated twice in one listing, beside an item of another
\* source
C20_Witness ==
    /\ obs.op = "__sync_list" /\ obs.path = "upsert"
    /\ Len(obs.cur) = 2 /\ obs.cur[1] = obs.cur[2]
    /\ Len(v) = 2
    /\ \E i \in 1..Len(v) :
           v[i].ytid = obs.cur[1] /\ v[i].ctime = NULL /\ v[i].title # NULL

----------------------------------------------------------------------------
(* YDL.add on a batch of URLs as typed.  A URL is what urllib.parse.urlparse *)
(* makes of it: scheme, netloc, path and the one key=value of its query     *)
(* (NULL: no query).                                                        *)

HTTPS == "https"

\* "if u.netloc not in (...)"
add_hosts == {"www.youtube.com", "youtube.com", "youtu.be"}

SLASH_VIDEOS == <<"/", "v", "i", "d", "e", "o", "s">>

SLASH_WATCH == <<"/", "w", "a", "t", "c", "h">>

SLASH_PLAYLIST == <<"/", "p", "l", "a", "y", "l", "i", "s", "t">>

Url(scheme, netloc, path, query) ==
    [scheme |-> scheme, netloc |-> netloc, path |-> path, query |-> query]

\* "if url.endswith('/videos'): url = url[:-len('videos')]"
add_trim(u) ==
    IF u.query = NULL /\ EndsWith(u.path, SLASH_VIDEOS)
    THEN [u EXCEPT !.path = SubSeq(@, 1, Len(@) - 6)]
    ELSE u

\* "'v' not in q" for q = parse_qs(u.query)
HasKey(u, key) == u.query # NULL /\ u.query.key = key

\* "len(q) != 3 and (len(q) == 4 and q[-1] != '')"
add_badpath(q) == Len(q) # 3 /\ (Len(q) = 4 /\ q[Len(q)] # <<>>)

\* a URL's turn in the first loop of add: it is rejected (sys.exit(-1)), or
\* appended to urls as (kind, id), or passed over
add_check(url) ==
    LET u == add_trim(url)
        q == Split(u.path, "/")
        under(dir) == Len(q) >= 3 /\ q[1] = <<>> /\ q[2] = dir
        entry(kind, id) == [exit |-> 0, urls |-> <<[typ |-> kind, name |-> id]>>]
        reject == [exit |-> -1, urls |-> <<>>]
    IN  IF u.scheme # HTTPS THEN reject
        ELSE IF u.netloc \notin add_hosts THEN reject
        ELSE IF u.path = SLASH_WATCH
        THEN IF ~HasKey(u, "v") THEN reject ELSE entry("v", u.query.val)
        ELSE IF u.path = SLASH_PLAYLIST
        THEN IF ~HasKey(u, "list") THEN reject ELSE entry("pl", u.query.val)
        ELSE IF under(<<"u", "s", "e", "r">>)
        THEN IF add_badpath(q) THEN reject ELSE entry("u", q[3])
        ELSE IF under(<<"c">>)
        THEN IF add_badpath(q) THEN reject ELSE entry("c", q[3])
        ELSE IF under(<<"c", "h", "a", "n", "n", "e", "l">>)
        THEN IF add_badpath(q) THEN reject ELSE entry("ch", q[3])
        ELSE [exit |-> 0, urls |-> <<>>]

\* the first loop over the whole batch: it stops at the first rejected URL
RECURSIVE add_parse(_)
add_parse(vals) ==
    IF vals = <<>> THEN [exit |-> 0, urls |-> <<>>]
    ELSE LET c == add_check(Head(vals))
             rest == add_parse(Tail(vals))
         IN  IF c.exit # 0 THEN c
             ELSE IF rest.exit # 0 THEN rest
             ELSE [exit |-> 0, urls |-> c.urls \o rest.urls]

\* a registration that leaves the creation instant of an item unset
add_video_Untimed(vt, ytid, dname) == Append(vt, VRow(ytid, MISCELLANEOUS, NULL))

\* db.add_video on the table as the transaction has it: the dname argument
\* is ignored
add_video_row(vt, ytid, dname) == Append(vt, VRow(ytid, MISCELLANEOUS, <<now>>))

\* the second loop of add, inside one transaction: each (kind, id) is looked
\* up and inserted when it is not there
RECURSIVE add_insert(_, _, _)
add_insert(vt, L, urls) ==
    IF urls = <<>> THEN [v |-> vt, lists |-> L]
    ELSE LET u == Head(urls)
         IN  IF u.typ = "v"
             THEN add_insert(IF select_one(vt, LAMBDA r : r.ytid = u.name) # 0 THEN vt
                             ELSE add_video_row(vt, u.name, MISCELLANEOUS),
                             L, Tail(urls))
             ELSE add_insert(vt,
                             IF select_one(L[u.typ], LAMBDA r : r.name = u.name) # 0 THEN L
                             ELSE [L EXCEPT ![u.typ] = Append(@, ListRow(u.name, <<now>>))],
                             Tail(urls))

add(batches) ==
    \E vals \in batches :
        LET p == add_parse(vals)
            r == add_insert(v, lists, p.urls)
        IN  /\ Idle
            /\ v' = IF p.exit = 0 THEN r.v ELSE v
            /\ lists' = IF p.exit = 0 THEN r.lists ELSE lists
            /\ obs' = [op |-> "add", vals |-> vals, exit |-> p.exit, urls |-> p.urls]
            /\ UNCHANGED <<now, vnames, vids, RSS, v_sleep, job>>

----------------------------------------------------------------------------
(* SpecAdd: batches of URLs, good and bad, registered while the clock runs *)

MaxBatch == 2

YT == "www.youtube.com"

AddUrls ==
    {Url(HTTPS, YT, SLASH_WATCH, [key |-> "v", val |-> YtidOf(1)]),
     Url(HTTPS, "youtu.be", SLASH_WATCH, [key |-> "v", val |-> YtidOf(1)]),
     Url(HTTPS, YT, SLASH_PLAYLIST, [key |-> "list", val |-> <<"P", "L">>]),
     Url(HTTPS, YT, <<"/", "u", "s", "e", "r", "/", "M">>, NULL),
     Url(HTTPS, YT, <<"/", "c", "/", "C", "/", "v", "i", "d", "e", "o", "s">>, NULL),
     Url(HTTPS, YT, <<"/", "c", "h", "a", "n", "n", "e", "l", "/", "U", "C", "/">>, NULL),
     Url("http", YT, SLASH_WATCH, [key |-> "v", val |-> YtidOf(1)]),
     Url(HTTPS, YT, <<"/", "f", "o", "o">>, NULL),
     Url(HTTPS, YT, <<"/", "u", "s", "e", "r", "/", "M", "/", "x">>, NULL),
     Url(HTTPS, YT, <<"/", "u", "s", "e", "r", "/", "M", "/", "x", "/", "y">>, NULL)}

AddBatches == SeqsUpTo(AddUrls, MaxBatch) \ {<<>>}

NextAdd ==
    \/ Tick
    \/ add(AddBatches)

SpecAdd == Init /\ [][NextAdd]_vars

\* the ids of the watch URLs a batch registered
C23_Registered == {obs'.urls[k].name : k \in {j \in 1..Len(obs'.urls) : obs'.urls[j].typ = "v"}}

\* what registration does with the item rows, the new row's ctime being c
C23_Registers(c) ==
    (obs'.op = "add" /\ obs'.exit = 0) =>
        /\ Len(v') >= Len(v)
        /\ \A i \in 1..Len(v) : v'[i] = v[i]
        /\ \A y \in C23_Registered :
               IF \E i \in 1..Len(v) : v[i].ytid = y
               THEN \A i \in 1..Len(v') : v'[i].ytid = y => i <= Len(v)
               ELSE \E i \in 1..Len(v') :
                       /\ v'[i] = [VRow(y, MISCELLANEOUS, c) EXCEPT !.skip = FALSE]
                       /\ v'[i].atime = NULL /\ v'[i].utime = NULL /\ v'[i].ptime = NULL
                       /\ \A j \in 1..Len(v') : v'[j].ytid = y => j = i

\* C23 as stated: registering a stand-alone watch URL whose iid is not yet
\* in the catalog creates exactly one item row with that iid, dname =
\* MISCELLANEOUS, skip = false and ctime, atime, utime and ptime all null;
\* registering an iid that already exists changes nothing.
C23_AllTimestampsNull == [][C23_Registers(NULL)]_vars

\* C23 amended: the new row has dname = MISCELLANEOUS, skip = false, ctime =
\* the instant of the registration, and atime, utime and ptime null;
\* registering an iid that already exists changes nothing.
C23_CreatedNow == [][C23_Registers(<<now>>)]_vars

\* at 01:00 a batch naming the same video twice, under two hosts, left one
\* row created at 01:00
C23_Witness ==
    /\ obs.op = "add" /\ obs.exit = 0
    /\ Len(obs.urls) = 2 /\ obs.urls[1] = obs.urls[2] /\ obs.urls[1].typ = "v"
    /\ obs.vals[1] # obs.vals[2]
    /\ Len(v) = 1 /\ v[1].ytid = obs.urls[1].name /\ v[1].ctime = <<Hour>>
    /\ v[1].dname = MISCELLANEOUS /\ v[1].atime = NULL

\* the URLs C24 accepts: https, an allow-listed host, and a path of the form
\* /watch?v=X, /playlist?list=X, /user/X[/], /c/X[/] or /channel/X[/]
C24_Accepted(url) ==
    LET q == Split(url.path, "/")
    IN  /\ url.scheme = "https"
        /\ url.netloc \in {"www.youtube.com", "youtube.com", "youtu.be"}
        /\ \/ url.path = SLASH_WATCH /\ url.query # NULL /\ url.query.key = "v"
           \/ url.path = SLASH_PLAYLIST /\ url.query # NULL /\ url.query.key = "list"
           \/ /\ url.query = NULL
              /\ Len(q) \in {3, 4} /\ q[1] = <<>> /\ q[3] # <<>>
              /\ q[2] \in {<<"u", "s", "e", "r">>, <<"c">>, <<"c", "h", "a", "n", "n", "e", "l">>}
              /\ Len(q) = 4 => q[4] = <<>>

\* C24: a batch whose URLs are all of the accepted forms is registered with
\* exit status zero; a batch holding any other URL ends with a nonzero exit
\* status and creates no source or item row.
C24_RejectsOthers ==
    [][obs'.op = "add" =>
          IF \A k \in 1..Len(obs'.vals) : C24_Accepted(obs'.vals[k])
          THEN obs'.exit = 0
          ELSE obs'.exit # 0 /\ v' = v /\ lists' = lists]_vars

----------------------------------------------------------------------------
(* ydl.get_list on one URL: the loop that calls the extractor until it     *)
(* lists something.  job holds the number of calls made (i), the ids       *)
(* collected (ytids) and what each call listed (seen).                     *)

\* "for i in range(3)"
GetListTries == 3

\* a loop that never leaves early
get_list_break_Never(ytids) == FALSE

\* "if len(ytids): break"
get_list_break(ytids) == ytids # <<>>

get_list(urls) ==
    \E url \in urls :
        /\ Idle
        /\ job' = [op |-> "get_list", url |-> url, i |-> 0, ytids |-> <<>>, seen |-> <<>>,
                   broke |-> FALSE]
        /\ obs' = [op |-> "get_list", url |-> url]
        /\ UNCHANGED <<now, catalog>>

InGetList == job # NULL /\ job.op = "get_list"

\* one round of the loop: dl.download prints the lines of the listing
get_list_try ==
    /\ InGetList
    /\ job.i < GetListTries /\ ~job.broke
    /\ \E lines \in Listings :
           /\ job' = [job EXCEPT !.i = @ + 1, !.ytids = @ \o lines,
                                 !.seen = Append(@, lines),
                                 !.broke = get_list_break(job.ytids \o lines)]
           /\ obs' = [op |-> "get_list_try", url |-> job.url, i |-> job.i + 1,
                      lines |-> lines]
    /\ UNCHANGED <<now, catalog>>

\* after the loop: "if not len(ytids): raise EmptyListError"
get_list_end ==
    /\ InGetList
    /\ job.i >= GetListTries \/ job.broke
    /\ job' = NULL
    /\ obs' = [op |-> "get_list_end", url |-> job.url, seen |-> job.seen,
               raise |-> IF job.ytids = <<>> THEN "EmptyListError" ELSE "",
               ret |-> job.ytids]
    /\ UNCHANGED <<now, catalog>>

----------------------------------------------------------------------------
(* SpecList: listings of a user, two channels and a playlist enumerated; a *)
(* call of get_list, once begun, runs to its end                           *)

ListUrls == {<<"u", "/", "M">>, <<"c", "/", "C">>, <<"c", "h", "/", "U">>, <<"p", "l", "/", "P">>}

NextList ==
    \/ get_list(ListUrls)
    \/ get_list_try
    \/ get_list_end

SpecList == Init /\ [][NextList]_vars /\ WF_vars(get_list_try \/ get_list_end)

\* a finished enumeration that made at most n retries after its first
\* attempt: every attempt but the last listed nothing; a last attempt that
\* listed something is what is returned; a last attempt that listed nothing
\* was the n-th retry and the call fails with EmptyList
C25_Enumerated(n) ==
    obs.op = "get_list_end" =>
        LET k == Len(obs.seen)
        IN  /\ k >= 1 /\ k <= 1 + n
            /\ \A j \in 1..(k - 1) : obs.seen[j] = <<>>
            /\ IF obs.seen[k] # <<>>
               THEN obs.raise = "" /\ obs.ret = obs.seen[k]
               ELSE obs.raise = "EmptyListError" /\ k = 1 + n

\* C25 as stated: the list enumerator re-invokes the extractor only while
\* the result is empty, makes up to three retries after an empty first
\* attempt, returns the first non-empty listing, and fails with EmptyList
\* exactly when every attempt (the first and the three retries) returned
\* zero items.
C25_ThreeRetries == C25_Enumerated(3)

\* C25 amended: the same with up to two retries, three attempts in all; and
\* every enumeration that was begun ends.
C25_TwoRetries == [](C25_Enumerated(2)) /\ (InGetList ~> Idle)

\* an enumeration that listed nothing twice and two ids on its second retry
C25_Witness ==
    /\ obs.op = "get_list_end" /\ obs.raise = ""
    /\ Len(obs.seen) = 3 /\ obs.seen[1] = <<>> /\ obs.seen[2] = <<>>
    /\ Len(obs.ret) = 2

----------------------------------------------------------------------------
(* SpecFail: two users registered and synced without the feed, while the   *)
(* enumeration may list nothing and the reconciliation may raise           *)

FailTargets == {[typ |-> "u", name |-> <<"M">>], [typ |-> "u", name |-> <<"P">>]}

FailSyncArgs == {[force |-> FALSE, no_rss |-> TRUE, ignore_old |-> FALSE, filt |-> {}]}

NextFail ==
    \/ Tick
    \/ Add(FailTargets)
    \/ sync_list(FailSyncArgs)
    \/ __sync_list_raising(BOOLEAN)
    \/ _sync_list_end

SpecFail == Init /\ [][NextFail]_vars

----------------------------------------------------------------------------
(* YDL.alias NAME ALIAS: give an unnamed channel an alias *)

\* the characters str.isalnum accepts, of those the texts here are made of
AlNum == {"0", "1", "2", "3", "4", "5", "6", "7", "8", "9",
          "C", "E", "I", "L", "M", "P", "S", "T", "U", "a", "b", "c", "e", "q", "x"}

\* db.alias_coerce on ASCII text: "if not a.isalnum(): raise ValueError"
alias_coerce_ok(a) == a # <<>> /\ \A k \in 1..Len(a) : a[k] \in AlNum

\* "self.db.v.update({'dname': self.args.alias[0]}, ...)": the item rows are
\* looked up by the channel's name, whatever alias they carry
alias_v_where(name, old_name) == name

\* exists: whether os.path.exists finds the directory named after the
\* channel's name
alias(argset) ==
    \E a \in argset, exists \in BOOLEAN :
        LET taken(tbl) == select_one(tbl, LAMBDA r : r.name = a.alias) # 0
            same == select_one(lists["ch"], LAMBDA r : r.alias = a.alias)
            row == select_one(lists["ch"], LAMBDA r : r.name = a.name)
            raises == \/ taken(lists["ch"])
                      \/ same # 0
                      \/ taken(lists["c"])
                      \/ taken(lists["u"])
                      \/ ~alias_coerce_ok(a.alias)
                      \/ row = 0
            pref == a.alias
            old_name == IF ~raises /\ ~exists /\ lists["ch"][row].alias # NULL
                        THEN lists["ch"][row].alias ELSE a.name
        IN  /\ Idle
            /\ IF raises
               THEN UNCHANGED <<lists, v, vids>>
               ELSE /\ lists' = [lists EXCEPT !["ch"][row].alias = pref]
                    /\ v' = update(v, LAMBDA r : r.dname = alias_v_where(a.name, old_name),
                                   LAMBDA r : [r EXCEPT !.dname = pref])
                    /\ vids' = update(vids, LAMBDA r : r.name = old_name,
                                      LAMBDA r : [r EXCEPT !.name = pref])
            /\ obs' = [op |-> "alias", name |-> a.name, alias |-> a.alias, done |-> ~raises,
                       exists |-> exists,
                       was |-> IF row = 0 THEN NULL ELSE lists["ch"][row].alias]
            /\ UNCHANGED <<now, vnames, RSS, v_sleep, job>>

----------------------------------------------------------------------------
(* SpecAlias: an unnamed channel registered, synced without the feed and   *)
(* given one alias after another                                           *)

AliasTargets == {[typ |-> "ch", name |-> <<"U", "C">>]}

AliasSyncArgs == {[force |-> FALSE, no_rss |-> TRUE, ignore_old |-> FALSE, filt |-> {}]}

AliasArgs ==
    {[name |-> <<"U", "C">>, alias |-> x] : x \in {<<"a">>, <<"b">>, <<"a", "-", "b">>}}

NextAlias ==
    \/ Add(AliasTargets)
    \/ sync_list(AliasSyncArgs)
    \/ __sync_list
    \/ _sync_list_end
    \/ alias(AliasArgs)

SpecAlias == Init /\ [][NextAlias]_vars

\* C29: after set-alias on an unnamed channel, including the replacement of
\* an alias that was already set, every item row owned by the channel (its
\* dname was the channel's name or its previous alias) has dname equal to
\* the new alias, and every membership row of the channel is keyed by the
\* new alias.
C29_EffectiveKey ==
    [][(obs'.op = "alias" /\ obs'.done) =>
          LET keys == {obs'.name} \cup (IF obs'.was = NULL THEN {} ELSE {obs'.was})
          IN  /\ \A i \in 1..Len(v) : v[i].dname \in keys => v'[i].dname = obs'.alias
              /\ \A i \in 1..Len(vids) : vids[i].name \in keys => vids'[i].name = obs'.alias]_vars

----------------------------------------------------------------------------
(* SpecBatch: a download batch whose items fail in every way the code      *)
(* tells apart                                                             *)

BatchOutcomes ==
    {[st |-> "ok"], [st |-> "interrupt"], NO_INFO}
    \cup {[st |-> "error", txt |-> m] :
              m \in {VIDEO_UNAVAILABLE, HTTP_ERROR, PREMIERES_SOON, LIVE_NOW,
                     PREMIERES_IN \o << <<"1">>, HOUR >>}}

NextBatch ==
    \/ Tick
    \/ Add(DLTargets)
    \/ download(MarkArgs)
    \/ _download_video(BatchOutcomes)

SpecBatch == Init /\ [][NextBatch]_vars

\* C31: in a download batch, a failure of one item other than a user
\* interrupt (an extractor error of any text, a missing info.json after the
\* download, an unparsable wait time) leaves the remaining items of the batch
\* to be attempted.
C31_FailureContinues ==
    [][(obs'.op = "_download_video" /\ obs'.out.st \in {"error", NO_INFO.st})
       => job' = Batch("download", job.args, Tail(job.ytids), job.rows)]_vars

\* C33: with auto-sleep enabled, an extractor error matching none of the
\* unavailable, live or premiere patterns leaves the item with neither
\* skip = true nor a sleep entry, and the batch goes on to the next item.
C33_UnrecognisedErrorLeavesNoMark ==
    [][(/\ obs'.op = "_download_video"
        /\ obs'.autosleep
        /\ obs'.out.st = "error"
        /\ obs'.out.txt = HTTP_ERROR)
       => /\ \A i \in 1..Len(v') : v'[i].ytid = obs'.ytid => ~v'[i].skip
          /\ \A i \in 1..Len(v_sleep') : v_sleep'[i].ytid # obs'.ytid
          /\ job' = Batch("download", job.args, Tail(job.ytids), job.rows)]_vars

----------------------------------------------------------------------------
(* SpecUpcoming: a user's list synced with the feed probed, forced or     *)
(* not, an item the feed announces marked skip and unmarked, sync-items    *)
(* and download; all within one tick of the clock                          *)

UpcomingSyncArgs ==
    {[force |-> f, no_rss |-> FALSE, ignore_old |-> FALSE, filt |-> {}] : f \in BOOLEAN}

UpcomingArgs == {[filt |-> {}, ignore_old |-> FALSE, noautosleep |-> TRUE]}

\* --skip and --unskip are given the id the feed announces
UpcomingMarks == {{YtidOf(1)}}

NextUpcoming ==
    \/ Add(SyncTargets)
    \/ sync_list(UpcomingSyncArgs)
    \/ __sync_list
    \/ _sync_list_end
    \/ skip(UpcomingMarks)
    \/ unskip(UpcomingMarks)
    \/ sync_videos(UpcomingArgs)
    \/ sync_video
    \/ download(UpcomingArgs)
    \/ _download_video({[st |-> "ok"]})

SpecUpcoming == Init /\ [][NextUpcoming]_vars

\* C21: in every reachable catalog state each item whose ctime and atime
\* are both set has ctime <= atime, and each item whose utime is set has
\* ctime set with ctime <= utime.
C21_TimestampOrder ==
    \A i \in 1..Len(v) :
        /\ (v[i].ctime # NULL /\ v[i].atime # NULL) => v[i].ctime[1] <= v[i].atime[1]
        /\ v[i].utime # NULL => (v[i].ctime # NULL /\ v[i].ctime[1] <= v[i].utime[1])

----------------------------------------------------------------------------
(* SpecUtime: stand-alone videos put to sleep, synced and downloaded with  *)
(* every kind of ending of the download step                               *)

UtimeTargets == {[typ |-> "v", name |-> YtidOf(1)]}

UtimeArgs == {[filt |-> {}, ignore_old |-> FALSE, noautosleep |-> n] : n \in BOOLEAN}

\* success, interrupt, size gate, skip-classified, sleep-classified, and a
\* failure that is sleep-classified unless --noautosleep is given
UtimeOutcomes ==
    {[st |-> "ok"], [st |-> "interrupt"], SIZED,
     [st |-> "error", txt |-> VIDEO_UNAVAILABLE],
     [st |-> "error", txt |-> PREMIERES_IN \o << <<"1">>, HOUR >>],
     [st |-> "error", txt |-> HTTP_ERROR]}

NextUtime ==
    \/ Tick
    \/ Add(UtimeTargets)
    \/ sleep({YtidOf(1)}, MarkSleepTimes)
    \/ unskip({{YtidOf(1)}})
    \/ sync_videos(UtimeArgs)
    \/ sync_video
    \/ download(UtimeArgs)
    \/ _download_video(UtimeOutcomes)

SpecUtime == Init /\ [][NextUtime]_vars

\* C22: the utime of an item changes only in a download step of that item
\* whose downloader invocation succeeded, and a row enters the catalog with
\* no utime; a download step that was sleep-gated, stopped by the size
\* gate, classified as skip or as sleep, failed or interrupted leaves every
\* utime as it was.
C22_UtimeOnlyOnSuccess ==
    [][/\ \A i \in 1..Len(v') :
             (IF i <= Len(v) THEN v'[i].utime # v[i].utime ELSE v'[i].utime # NULL) =>
                 /\ obs'.op = "_download_video"
                 /\ obs'.request /\ obs'.out.st = "ok"
                 /\ obs'.ytid = v'[i].ytid
       /\ (obs'.op = "_download_video" /\ obs'.out.st # "ok") =>
              /\ Len(v') = Len(v)
              /\ \A i \in 1..Len(v) : v'[i].utime = v[i].utime]_vars

\* a download step at 01:00 that succeeded and stamped the utime of an
\* item registered at 00:00
C22_Witness ==
    /\ obs.op = "_download_video" /\ obs.out.st = "ok" /\ obs.ret = "True"
    /\ now = Hour
    /\ \E i \in 1..Len(v) :
           v[i].ytid = obs.ytid /\ v[i].utime = <<now>> /\ v[i].ctime = <<0>>

----------------------------------------------------------------------------
(* SpecVFS: a user's list is registered, synced and downloaded, and the    *)
(* archive is mounted and walked                                           *)

VfsSyncArgs == {[force |-> FALSE, no_rss |-> TRUE, ignore_old |-> FALSE, filt |-> {}]}

VfsDLArgs == {[filt |-> {}, ignore_old |-> FALSE, noautosleep |-> TRUE]}

NextVFS ==
    \/ Add(SyncTargets)
    \/ sync_list(VfsSyncArgs)
    \/ __sync_list
    \/ _sync_list_end
    \/ download(VfsDLArgs)
    \/ _download_video({[st |-> "ok"]})
    \/ fuse
    \/ unmount
    \/ vfs_readdir
    \/ vfs_readlink
    \/ vfs_mutate

SpecVFS == Init /\ [][NextVFS]_vars

VfsOps == {"readdir", "readlink"} \cup MutatingOps

\* C6: every mutating operation of the filesystem fails with permission
\* denied, and no operation of the filesystem creates, changes or removes a
\* catalog row.
C6_ReadOnly ==
    [][obs'.op \in VfsOps =>
          /\ catalog' = catalog
          /\ obs'.op \in MutatingOps => obs'.err = "EACCES"]_vars

\* unlink attempted on the directory of a list that holds a downloaded video
C6_Witness ==
    /\ obs.op = "unlink" /\ obs.err = "EACCES"
    /\ Len(obs.path) = 2
    /\ \E i \in 1..Len(v) : v[i].dname = obs.path[2] /\ v[i].utime # NULL

\* C7: for every file entry returned by a listing of a directory of the
\* filesystem, readlink of that entry returns a target that, resolved
\* against the mount, is the item's media path
\* <root>/<dname>/<iid[0]>/<effective-name>-<iid>.mkv.
C7_LinkResolves ==
    obs.op = "readlink" =>
        /\ obs.ok
        /\ \E i \in 1..Len(v) :
               /\ v[i].ytid = obs.ytid
               /\ obs.resolved = format_v_fname(v[i].dname, v[i].name, alias_of(obs.ytid),
                                                obs.ytid, MKV)

----------------------------------------------------------------------------
(* SpecViews: an unnamed channel is registered, synced, given an alias and *)
(* downloaded, and the archive is mounted and its directories listed       *)

ViewsAliasArgs == {[name |-> <<"U", "C">>, alias |-> <<"a">>]}

NextViews ==
    \/ Add(AliasTargets)
    \/ sync_list(AliasSyncArgs)
    \/ __sync_list
    \/ _sync_list_end
    \/ alias(ViewsAliasArgs)
    \/ download(VfsDLArgs)
    \/ _download_video({[st |-> "ok"]})
    \/ fuse
    \/ unmount
    \/ vfs_readdir

SpecViews == Init /\ [][NextViews]_vars

\* the key the items and membership rows of a source are filed under
EffectiveKey(row) == IF row.alias # NULL THEN row.alias ELSE row.name

\* C32: under c/, ch/, u/ and pl/ each source appears as one directory named
\* by its effective key (for an unnamed channel the alias when set, else the
\* channel key), and the listing of that directory holds exactly one entry
\* '<preferred name or name>-<iid>.mkv' per item of the source with utime
\* set, and none for an item whose utime is null.
C32_SourceDirectories ==
    (obs.op = "readdir" /\ \E t \in DBNames : obs.path[1] = DBName(t)) =>
        LET typ == CHOOSE t \in DBNames : obs.path[1] = DBName(t)
            ls == obs.ret.entries
            names == {ls[k].name : k \in 1..Len(ls)}
        IN  /\ Len(obs.path) = 1 =>
                  /\ names = {EffectiveKey(lists[typ][k]) : k \in 1..Len(lists[typ])}
                  /\ Len(ls) = Len(lists[typ])
            /\ Len(obs.path) = 2 =>
                  LET key == obs.path[2]
                      items == {i \in 1..Len(v) :
                                   /\ v[i].utime # NULL
                                   /\ \E j \in 1..Len(vids) :
                                          vids[j].name = key /\ vids[j].ytid = v[i].ytid}
                      entry(i) == LET a == alias_of(v[i].ytid)
                                  IN  (IF a # NULL THEN a ELSE v[i].name)
                                      \o <<"-">> \o v[i].ytid \o <<".">> \o MKV
                  IN  (\E k \in 1..Len(lists[typ]) : EffectiveKey(lists[typ][k]) = key)
                      => /\ names = {entry(i) : i \in items}
                         /\ Len(ls) = Cardinality(items)

----------------------------------------------------------------------------
(* SpecGhost: a user and a playlist that may hold the user's videos are    *)
(* registered and synced with the feed enabled                             *)

GhostTargets == {[typ |-> "u", name |-> <<"M">>], [typ |-> "pl", name |-> <<"P">>]}

NextGhost ==
    \/ Add(GhostTargets)
    \/ sync_list(MarkSyncArgs)
    \/ __sync_list
    \/ _sync_list_end

SpecGhost == Init /\ [][NextGhost]_vars

\* C34: after a reconciliation in which every enumerated iid was already a
\* member and force is not set, every feed id absent from the enumeration
\* has a membership row for this source with idx = -1 and an item row whose
\* ctime, atime and utime are null, and no other membership or item row has
\* been changed.
C34_GhostRows ==
    [][(obs'.op = "__sync_list" /\ obs'.path = "all_old") =>
          /\ \A g \in weird_diff(obs'.new, obs'.cur) :
                 /\ \E j \in 1..Len(vids') :
                        vids'[j].name = obs'.key /\ vids'[j].ytid = g /\ vids'[j].idx = -1
                 /\ \E i \in 1..Len(v') :
                        /\ v'[i].ytid = g
                        /\ v'[i].ctime = NULL /\ v'[i].atime = NULL /\ v'[i].utime = NULL
          /\ Len(vids') >= Len(vids) /\ SubSeq(vids', 1, Len(vids)) = vids
          /\ Len(v') >= Len(v) /\ SubSeq(v', 1, Len(v)) = v]_vars

----------------------------------------------------------------------------
(* SpecCache: an unnamed channel is registered, given an alias or not, and *)
(* synced again and again with the feed enabled                            *)

NextCache ==
    \/ Tick
    \/ Add(AliasTargets)
    \/ alias(ViewsAliasArgs)
    \/ sync_list(MarkSyncArgs)
    \/ __sync_list
    \/ _sync_list_end

SpecCache == Init /\ [][NextCache]_vars

\* C35: once a feed URL has been stored for a source, every later feed probe
\* of that source (aliased unnamed channels included) uses the stored URL
\* without fetching the source page again, and the cache never holds two
\* entries for the same (variant, source key).
C35_FeedUrlCached ==
    [][obs'.op = "__sync_list" =>
          /\ (\E k \in 1..Len(RSS) :
                  RSS[k].typ = obs'.typ /\ RSS[k].name \in {obs'.c_name, obs'.key})
              => ~obs'.fetched
          /\ \A j, k \in 1..Len(RSS') :
                 (RSS'[j].typ = RSS'[k].typ /\ RSS'[j].name = RSS'[k].name) => j = k]_vars

----------------------------------------------------------------------------
(* SpecGate: a video is downloaded, and downloaded again with --if-small   *)
(* while its media file is on disk                                         *)

MaxSize == 5

GateOutcomes ==
    {[st |-> "ok"]}
    \cup {IF_SMALL(sz, max_sz, then) :
              sz \in 0..MaxSize, max_sz \in 1..MaxSize,
              then \in {[st |-> "ok"], [st |-> "error", txt |-> HTTP_ERROR]}}

NextGate ==
    \/ Tick
    \/ Add(UtimeTargets)
    \/ download(VfsDLArgs)
    \/ _download_video(GateOutcomes)

SpecGate == Init /\ [][NextGate]_vars

\* the file is kept and the downloader not called
C36_Kept == ~obs'.request /\ ~obs'.unlinked /\ obs'.ret = "None" /\ v' = v

\* the file is deleted and the downloader called
C36_Replaced ==
    /\ obs'.request /\ obs'.unlinked
    /\ obs'.ret = (IF obs'.out.then.st = "ok" THEN "True" ELSE "None")

\* C36: with if_small set and the media file present with size s, where m
\* is the largest advertised format size, the download is skipped and the
\* file kept exactly when s >= 80% of m (5*s >= 4*m, boundary included);
\* otherwise the existing file is deleted and the downloader is invoked.
C36_GateInclusive ==
    [][(obs'.op = "_download_video" /\ obs'.out.st = "small") =>
          IF 5 * obs'.out.sz >= 4 * obs'.out.max_sz THEN C36_Kept ELSE C36_Replaced]_vars

\* C36 (amended): the download is skipped and the file kept exactly when
\* s > 80% of m (5*s > 4*m, boundary excluded); otherwise, a file of exactly
\* four fifths of m included, the file is deleted and the downloader invoked.
C36_GateExclusive ==
    [][(obs'.op = "_download_video" /\ obs'.out.st = "small") =>
          IF 5 * obs'.out.sz > 4 * obs'.out.max_sz THEN C36_Kept ELSE C36_Replaced]_vars

\* a file of 4 bytes against 5 advertised was deleted and downloaded again
C36_Witness ==
    /\ obs.op = "_download_video" /\ obs.out.st = "small"
    /\ obs.out.sz = 4 /\ obs.out.max_sz = 5
    /\ obs.unlinked /\ obs.request /\ obs.ret = "True"
    /\ \E i \in 1..Len(v) : v[i].ytid = obs.ytid /\ v[i].utime = <<now>>

----------------------------------------------------------------------------
(* SpecOld: videos are registered and downloaded, and sync-items runs with *)
(* --ignore-old, unfiltered or filtered by a video id or a directory name  *)

OldArgs ==
    {[filt |-> f, ignore_old |-> TRUE, noautosleep |-> TRUE] :
        f \in {{}, {YtidOf(1)}, {ChannelOf(YtidOf(1))}}}

NextOld ==
    \/ Tick
    \/ Add(DLTargets)
    \/ download(VfsDLArgs)
    \/ _download_video({[st |-> "ok"]})
    \/ sync_videos(OldArgs)
    \/ sync_video

SpecOld == Init /\ [][NextOld]_vars

\* C37: with ignore_old set, sync-items processes only items whose utime is
\* null, both without a filter and with a filter of iids or owning-source
\* keys: an item with utime set is never selected.
C37_IgnoreOld ==
    [][(obs'.op = "sync_video" /\ job.args.ignore_old) => Head(job.rows).utime = NULL]_vars

----------------------------------------------------------------------------
(* SpecDates: a video published in January is registered and downloaded,   *)
(* in January or in February, and the date views of the mounted archive    *)
(* are walked                                                              *)

\* the clock passes from January into February
TickMonth ==
    /\ now < DaysOfJanuary * Day
    /\ now' = now + DaysOfJanuary * Day
    /\ obs' = NoObs
    /\ UNCHANGED <<catalog, job>>

NextDates ==
    \/ Tick
    \/ TickMonth
    \/ Add(UtimeTargets)
    \/ download(VfsDLArgs)
    \/ _download_video({[st |-> "ok"]})
    \/ fuse
    \/ unmount
    \/ vfs_readdir

SpecDates == Init /\ [][NextDates]_vars

\* the listing of the directory holds an entry of this name
C38_Lists(parts, name) ==
    LET ls == readdir(parts).entries IN \E k \in 1..Len(ls) : ls[k].name = name

\* the listing of the directory holds a link of this item
C38_Links(parts, ytid) ==
    LET ls == readdir(parts).entries IN \E k \in 1..Len(ls) : ls[k].ytid = ytid

\* C38: for every item with utime set, walking the v/date_download listings
\* year, then month, then day reaches the day directory of its utime date,
\* and that directory lists the item (likewise v/date_publish by ptime); an
\* item with utime null is listed in no date directory.
C38_DateViews ==
    Mounted =>
        \A i \in 1..Len(v), dd \in {DATE_PUBLISH, DATE_DOWNLOAD} :
            LET t == DateCol(v[i], dd)
                Y == strftime_Y(t)
                m == strftime_m(t)
                d == strftime_d(t)
            IN  IF v[i].utime # NULL
                THEN /\ C38_Lists(<< <<"v">>, dd >>, Y)
                     /\ C38_Lists(<< <<"v">>, dd, Y >>, m)
                     /\ C38_Lists(<< <<"v">>, dd, Y, m >>, d)
                     /\ C38_Links(<< <<"v">>, dd, Y, m, d >>, v[i].ytid)
                ELSE \A parts \in VfsDirs :
                         parts[1] = <<"v">> => ~C38_Links(parts, v[i].ytid)

----------------------------------------------------------------------------
(* Ghost promotion, under SpecSync *)

\* C39: once an item recorded as a feed ghost (membership idx = -1) appears
\* in the source's full listing, the next sync-lists pass of that source
\* with the feed enabled gives its membership row its listing position
\* (idx >= 1): a pass that has read the feed and meets a ghost of the source
\* either leaves its row with a position, or has fetched the full listing
\* and not found the ghost in it.
C39_GhostPromoted ==
    [][(obs'.op = "__sync_list" /\ obs'.verdict \in {"IndicatesNew", "Fresh"})
       => \A j \in 1..Len(vids) :
              (vids[j].name = obs'.key /\ vids[j].idx = -1)
              => \/ vids'[j].idx >= 1
                 \/ obs'.full /\ vids[j].ytid \notin Range(obs'.cur)]_vars

----------------------------------------------------------------------------
(* SpecExcl: one video, whose id needs no escape, is registered, marked    *)
(* skip and unskip, put to sleep and woken, and downloaded                 *)

NextExcl ==
    \/ Tick
    \/ Add(UtimeTargets)
    \/ skip(UpcomingMarks)
    \/ unskip(UpcomingMarks)
    \/ sleep({YtidOf(1)}, MarkSleepTimes)
    \/ unsleep({{STAR}, {YtidOf(1)}})
    \/ download(MarkArgs)
    \/ _download_video(MarkOutcomes)

SpecExcl == Init /\ [][NextExcl]_vars

\* C40: skipped and sleeping are exclusive: in every reachable state no item
\* has both skip = true and a sleep entry, after any sequence of mark-skip,
\* mark-unskip, sleep, unsleep, prune and download operations (in
\* particular sleep(iid, t) on an item already marked skip).
C40_SkipSleepExclusive ==
    \A i \in 1..Len(v), k \in 1..Len(v_sleep) : v[i].skip => v_sleep[k].ytid # v[i].ytid

====
